---- MODULE Spec2Model ----
(***************************************************************************)
(* A model of unrpyc's source-reconstruction engine:                       *)
(*   - decompiler/__init__.py : class Decompiler (the statement engine)    *)
(*   - decompiler/sl2decompiler.py : class SL2Decompiler (the UI engine)   *)
(*   - unrpyc.py : worker_common / run_workers                             *)
(*   - decompiler/renpycompat.py : fix_ast_for_renpy_84                    *)
(* Four specifications share the module: Spec (one Decompiler.dump of one  *)
(* tree), SpecSL2 (the ordering algorithm and name resolution of the UI    *)
(* engine), SpecWorkers (run_workers over a work list) and SpecFix (the    *)
(* normalisation pass of read_ast_from_file and the fields the handlers    *)
(* fill in afterwards).                                                    *)
(***************************************************************************)
EXTENDS Integers, Sequences, FiniteSets, TLC

VARIABLES
    ast,        \* the tree handed to Decompiler.dump (read-only input)
    options,    \* decompiler.Options: init_offset
    dc,         \* the Decompiler instance (self): its fields, by source name
    stack,      \* the Python call stack of dump: print_nodes loops and handler frames
    status,     \* "new" | "run" | "done" | "error"
    error,      \* the exception that left dump, and the node that raised it
    scopes,     \* history: one record per save_state call (for the transaction claims)
    sl,         \* the UI engine: one node, its render plan and resolved name
    wk,         \* run_workers: shared args, work list, results
    fx          \* read_ast_from_file: the tree being normalised, then visited

vars == <<ast, options, dc, stack, status, error, scopes, sl, wk, fx>>

\* ---------------------------------------------------------------- bounds

\* longest block of show/scene/hide/with/jump/return statements explored
MaxBlock == 3
\* most items of a menu
MaxItems == 2
\* longest top-level sequence of init blocks and declarations
MaxInits == 3

\* ------------------------------------------------------------ basic values

Max(a, b) == IF a >= b THEN a ELSE b

\* Python None for optional integers (line numbers, expressions)
None == 0

\* self.paired_with: False, True, or the pending transition expression (> 0)
PW_False == 0
PW_True == 0 - 1

RECURSIVE SeqSum(_)
SeqSum(s) == IF s = <<>> THEN 0 ELSE Head(s) + SeqSum(Tail(s))

\* ------------------------------------------------------------------ nodes

\* A renpy.ast node; every kind carries the same fields, unused ones at their
\* default.  expr/paired/expression: 0 is None.  condition of a menu item: 0 is
\* the plain string "True" (no linenumber attribute), n > 0 a PyExpr on line n.
Node(kind, line) ==
    [kind |-> kind, linenumber |-> line, id |-> 0,
     block |-> <<>>, items |-> <<>>,
     expr |-> None, paired |-> None, expression |-> None,
     priority |-> 0, parameters |-> FALSE,
     interact |-> TRUE, who |-> TRUE, with_ |-> FALSE, attributes |-> FALSE]

NoNode == Node("None", 0)
IsNone(n) == n.kind = "None"

\* One (label, condition, block) entry of Menu.items; hasblock FALSE is block None
Item(cond, blk) == [id |-> 0, condition |-> cond, hasblock |-> TRUE, block |-> blk]

RECURSIVE NodeSize(_), BlockSize(_), ItemsSize(_)
NodeSize(n) == 1 + BlockSize(n.block) + ItemsSize(n.items)
BlockSize(b) == IF b = <<>> THEN 0 ELSE NodeSize(Head(b)) + BlockSize(Tail(b))
ItemsSize(its) ==
    IF its = <<>> THEN 0 ELSE 1 + BlockSize(Head(its).block) + ItemsSize(Tail(its))

\* Number the nodes (and menu items) of a tree in the order dump visits them, so
\* that a written token names the node that wrote it.
RECURSIVE NumBlock(_, _), NumItems(_, _)
NumNode(n, k) ==
    [n EXCEPT !.id = k,
              !.block = NumBlock(n.block, k + 1),
              !.items = NumItems(n.items, k + 1 + BlockSize(n.block))]
NumBlock(b, k) ==
    IF b = <<>> THEN <<>>
    ELSE <<NumNode(Head(b), k)>> \o NumBlock(Tail(b), k + NodeSize(Head(b)))
NumItems(its, k) ==
    IF its = <<>> THEN <<>>
    ELSE <<[Head(its) EXCEPT !.id = k, !.block = NumBlock(Head(its).block, k + 1)]>>
         \o NumItems(Tail(its), k + 1 + BlockSize(Head(its).block))

\* ------------------------------------------------- Cursor / Writer (util.py)

\* One written piece of text: <<kind, id of the node that wrote it, argument,
\* serial number of the write>>.
Token(kind, id, arg, serial) == <<kind, id, arg, serial>>
TKind(t) == t[1]
TId(t) == t[2]
TArg(t) == t[3]
TSerial(t) == t[4]

\* DecompilerBase.write: append to the active sink, count the newlines.
write(d, kind, id, arg, newlines) ==
    [d EXCEPT !.files[d.out_file] = Append(@, Token(kind, id, arg, d.nwrites + 1)),
              !.linenumber = @ + newlines,
              !.skip_indent_until_write = FALSE,
              !.nwrites = @ + 1]

\* write("\n" * n): n = 0 writes the empty string, which only clears the flag
write_newlines(d, n) ==
    IF n = 0 THEN [d EXCEPT !.skip_indent_until_write = FALSE]
    ELSE write(d, "blank", 0, n, n)

\* DecompilerBase.indent
indent(d) ==
    IF d.skip_indent_until_write THEN d
    ELSE write(d, "indent", 0, d.indent_level, 1)

\* do_set_init_offset without the test of the indent level
do_set_init_offset_any_indent(d, offset, linenumber) ==
    IF linenumber = None \/ linenumber - d.linenumber <= 1
    THEN <<d, TRUE>>
    ELSE <<IF offset # d.init_offset
           THEN [write(indent(d), "init offset", 0, offset, 0)
                    EXCEPT !.init_offset = offset]
           ELSE d,
           FALSE>>

\* Decompiler.set_init_offset.do_set_init_offset: <<self afterwards, return value>>
do_set_init_offset(d, offset, linenumber) ==
    IF linenumber = None \/ linenumber - d.linenumber <= 1 \/ d.indent_level # 0
    THEN <<d, TRUE>>
    ELSE <<IF offset # d.init_offset
           THEN [write(indent(d), "init offset", 0, offset, 0)
                    EXCEPT !.init_offset = offset]
           ELSE d,
           FALSE>>

\* [m for m in self.blank_line_queue if m(linenumber)]
RECURSIVE run_blank_line_queue(_, _, _, _)
run_blank_line_queue(d, queue, linenumber, kept) ==
    IF queue = <<>> THEN [d EXCEPT !.blank_line_queue = kept]
    ELSE LET r == do_set_init_offset(d, Head(queue), linenumber)
         IN run_blank_line_queue(r[1], Tail(queue), linenumber,
                                 IF r[2] THEN Append(kept, Head(queue)) ELSE kept)

\* DecompilerBase.advance_to_line
base_advance_to_line(d, linenumber) ==
    LET d1 == run_blank_line_queue(d, d.blank_line_queue, linenumber, <<>>)
    IN IF d1.linenumber < linenumber
       THEN write_newlines(d1, linenumber - d1.linenumber - 1)
       ELSE d1

\* advance_to_line that records the distance to the target without the floor at 0
advance_to_line_unclamped(d, linenumber) ==
    LET behind == d.linenumber + (IF d.skip_indent_until_write THEN 0 ELSE 1)
                  - linenumber
        d1 == [d EXCEPT !.last_lines_behind = behind,
                        !.most_lines_behind = Max(behind, d.most_lines_behind)]
    IN base_advance_to_line(d1, linenumber)

\* Decompiler.advance_to_line
advance_to_line(d, linenumber) ==
    LET behind == Max(d.linenumber + (IF d.skip_indent_until_write THEN 0 ELSE 1)
                      - linenumber, 0)
        d1 == [d EXCEPT !.last_lines_behind = behind,
                        !.most_lines_behind = Max(behind, d.most_lines_behind)]
    IN base_advance_to_line(d1, linenumber)

\* Decompiler.__init__ (and DecompilerBase.__init__)
NewDecompiler ==
    [files |-> << <<>> >>, out_file |-> 1,
     linenumber |-> 0, indent_level |-> 0, skip_indent_until_write |-> FALSE,
     blank_line_queue |-> <<>>,
     paired_with |-> PW_False,
     say_inside_menu |-> NoNode, label_inside_menu |-> NoNode,
     in_init |-> FALSE, missing_init |-> FALSE, init_offset |-> 0,
     most_lines_behind |-> 0, last_lines_behind |-> 0,
     nwrites |-> 0]

\* ------------------------------------------- speculative write scopes

\* DecompilerBase.save_state: the tuple returned (block_stack and index_stack are
\* the lists themselves, which `stack` holds)
base_saved_state(d) ==
    [out_file |-> d.out_file, skip_indent_until_write |-> d.skip_indent_until_write,
     linenumber |-> d.linenumber, indent_level |-> d.indent_level,
     blank_line_queue |-> d.blank_line_queue]

\* self.out_file = StringIO()
new_stringio(d) ==
    [d EXCEPT !.files = Append(@, <<>>), !.out_file = Len(d.files) + 1]

\* DecompilerBase.save_state: self afterwards, writing into a fresh StringIO
base_save_state(d) == new_stringio(d)

\* DecompilerBase.commit_state
base_commit_state(d, state) ==
    [d EXCEPT !.files[state.out_file] = @ \o d.files[d.out_file],
              !.out_file = state.out_file]

\* DecompilerBase.rollback_state
base_rollback_state(d, state) ==
    [d EXCEPT !.out_file = state.out_file,
              !.skip_indent_until_write = state.skip_indent_until_write,
              !.linenumber = state.linenumber,
              !.indent_level = state.indent_level,
              !.blank_line_queue = state.blank_line_queue]

\* Decompiler.save_state: the tuple returned; base is state[0]
saved_state(d) ==
    [base |-> base_saved_state(d),
     paired_with |-> d.paired_with, say_inside_menu |-> d.say_inside_menu,
     label_inside_menu |-> d.label_inside_menu, in_init |-> d.in_init,
     missing_init |-> d.missing_init, most_lines_behind |-> d.most_lines_behind,
     last_lines_behind |-> d.last_lines_behind]

\* Decompiler.save_state: self afterwards
save_state(d) == base_save_state(d)

\* commit_state that switches back to the saved sink without flushing the buffer
commit_state_unflushed(d, state) == [d EXCEPT !.out_file = state.base.out_file]

\* Decompiler.commit_state
commit_state(d, state) == base_commit_state(d, state.base)

\* rollback_state that restores the sink and the cursor but not the pending say
rollback_state_forgets_say(d, state) ==
    base_rollback_state(
        [d EXCEPT !.paired_with = state.paired_with,
                  !.label_inside_menu = state.label_inside_menu,
                  !.in_init = state.in_init,
                  !.missing_init = state.missing_init,
                  !.most_lines_behind = state.most_lines_behind,
                  !.last_lines_behind = state.last_lines_behind],
        state.base)

\* rollback_state that restores the cursor but keeps writing into the buffer of
\* the attempt
rollback_state_keeps_sink(d, state) ==
    [d EXCEPT !.paired_with = state.paired_with,
              !.say_inside_menu = state.say_inside_menu,
              !.label_inside_menu = state.label_inside_menu,
              !.in_init = state.in_init,
              !.missing_init = state.missing_init,
              !.most_lines_behind = state.most_lines_behind,
              !.last_lines_behind = state.last_lines_behind,
              !.skip_indent_until_write = state.base.skip_indent_until_write,
              !.linenumber = state.base.linenumber,
              !.indent_level = state.base.indent_level,
              !.blank_line_queue = state.base.blank_line_queue]

\* rollback_state that leaves the lines-behind counters of the attempt in place
rollback_state_keeps_behind(d, state) ==
    base_rollback_state(
        [d EXCEPT !.paired_with = state.paired_with,
                  !.say_inside_menu = state.say_inside_menu,
                  !.label_inside_menu = state.label_inside_menu,
                  !.in_init = state.in_init,
                  !.missing_init = state.missing_init],
        state.base)

\* Decompiler.rollback_state
rollback_state(d, state) ==
    base_rollback_state(
        [d EXCEPT !.paired_with = state.paired_with,
                  !.say_inside_menu = state.say_inside_menu,
                  !.label_inside_menu = state.label_inside_menu,
                  !.in_init = state.in_init,
                  !.missing_init = state.missing_init,
                  !.most_lines_behind = state.most_lines_behind,
                  !.last_lines_behind = state.last_lines_behind],
        state.base)

\* --------------------------------------------------------- the call stack

NodesFrame(blk, extra) == [f |-> "nodes", block |-> blk, index |-> 1, extra |-> extra]

Top == stack[Len(stack)]
Running == status = "run" /\ stack # <<>>
\* inside the loop of print_nodes, about to print block[index]
AtNode == Running /\ Top.f = "nodes" /\ Top.index <= Len(Top.block)
Cur == Top.block[Top.index]
AtKind(k) == AtNode /\ Cur.kind = k

\* self.block, and self.index (0-based in the code, 1-based here)
Block == Top.block
Index == Top.index

\* the loop of print_nodes moves to the next node
NextNode(st) == [st EXCEPT ![Len(st)].index = @ + 1]

NodesFrames(st) == SelectSeq(st, LAMBDA fr : fr.f = "nodes")

\* DecompilerBase.parent: block_stack[-2][index_stack[-2]], None at the top level
Parent ==
    LET nf == NodesFrames(stack)
    IN IF Len(nf) < 2 THEN NoNode
       ELSE nf[Len(nf) - 1].block[nf[Len(nf) - 1].index]

\* print_nodes(block, extra_indent): increase_indent, then loop over the block
print_nodes(st, blk, extra) == Append(st, NodesFrame(blk, extra))
increase_indent(d, amount) == [d EXCEPT !.indent_level = @ + amount]

\* Decompiler.print_node: the line advance before the dispatch
print_node_advance(d, n) ==
    IF n.kind \in {"TranslateString", "With", "Label", "Pass", "Return"}
    THEN d
    ELSE advance_to_line(d, n.linenumber)

\* out_file.write(...) on a sink that is not the active one: no cursor change
file_write(d, file, kind, id, arg) ==
    [d EXCEPT !.files[file] = Append(@, Token(kind, id, arg, d.nwrites + 1)),
              !.nwrites = @ + 1]

\* the finally clause without the restore of missing_init
label_finally_keeps_flag(d, fr) ==
    LET buf == d.files[d.out_file]
        d1 == IF d.missing_init
              THEN file_write(d, fr.out_file, "init ", fr.node.id, 0)
              ELSE d
    IN [d1 EXCEPT !.files[fr.out_file] = @ \o buf,
                  !.out_file = fr.out_file]

\* Decompiler.print_label, the finally clause: fr is the frame holding the
\* locals out_file and missing_init
label_finally(d, fr) ==
    LET buf == d.files[d.out_file]
        d1 == IF d.missing_init
              THEN file_write(d, fr.out_file, "init ", fr.node.id, 0)
              ELSE d
    IN [d1 EXCEPT !.missing_init = fr.missing_init,
                  !.files[fr.out_file] = @ \o buf,
                  !.out_file = fr.out_file]

\* An exception unwinds the stack: the finally clauses of print_label,
\* print_init and increase_indent run, innermost first.
RECURSIVE unwind(_, _)
unwind(d, st) ==
    IF st = <<>> THEN d
    ELSE LET fr == st[Len(st)]
             rest == SubSeq(st, 1, Len(st) - 1)
             d1 == CASE fr.f = "label" ->
                          label_finally(d, fr)
                      [] fr.f = "init" -> [d EXCEPT !.in_init = fr.in_init]
                      [] fr.f = "translate" -> [d EXCEPT !.in_init = fr.in_init]
                      [] fr.f = "nodes" -> [d EXCEPT !.indent_level = @ - fr.extra]
                      [] fr.f = "menu" -> [d EXCEPT !.indent_level = @ - 1]
                      [] OTHER -> d
         IN unwind(d1, rest)

\* an exception raised by the handler of `node`, after the handler made d of self
Raise(d, kind, node) ==
    /\ status' = "error"
    /\ error' = [kind |-> kind, node |-> node.id]
    /\ dc' = unwind(d, stack)
    /\ stack' = <<>>

NoError == [kind |-> "none", node |-> 0]

\* ------------------------------------------------ show / scene / hide / with

Truthy(paired_with) == paired_with # PW_False

\* the tail of print_show that writes the clause but does not mark it written
print_paired_with_unmarked(d, n) ==
    IF Truthy(d.paired_with) THEN write(d, "with", n.id, d.paired_with, 0) ELSE d

\* the tail shared by print_show, print_scene and print_hide
print_paired_with(d, n) ==
    IF Truthy(d.paired_with)
    THEN [write(d, "with", n.id, d.paired_with, 0) EXCEPT !.paired_with = PW_True]
    ELSE d

print_show(d, n) == print_paired_with(write(indent(d), "show", n.id, 0, 0), n)
print_scene(d, n) == print_paired_with(write(indent(d), "scene", n.id, 0, 0), n)
print_hide(d, n) == print_paired_with(write(indent(d), "hide", n.id, 0, 0), n)

\* a sanity check that accepts whatever follows
paired_with_check_skipped(blk, index, n) == "ok"

\* print_with, the sanity check of a With with paired set: "ok", or the exception
\* the subscript or the raise statement throws
paired_with_check(blk, index, n) ==
    IF index + 2 > Len(blk) THEN "IndexError"
    ELSE IF blk[index + 2].kind = "With" /\ blk[index + 2].expr = n.paired
         THEN "ok"
         ELSE "Exception"

\* print_with, when it does not raise
print_with(d, n) ==
    IF n.paired # None THEN [d EXCEPT !.paired_with = n.paired]
    ELSE IF Truthy(d.paired_with)
         THEN [(IF d.paired_with # PW_True THEN write(d, "with", n.id, n.expr, 0) ELSE d)
                  EXCEPT !.paired_with = PW_False]
         ELSE [write(indent(advance_to_line(d, n.linenumber)), "with", n.id, n.expr, 0)
                  EXCEPT !.paired_with = PW_False]

\* ------------------------------------------------------------ flow control

\* the test without the comparison of line numbers
return_is_implicit_any_line(n, blk, index, parent) ==
    n.expression = None /\ IsNone(parent) /\ index = Len(blk) /\ index # 1

\* print_return: the test for the return statement Ren'Py appends to every file
return_is_implicit(n, blk, index, parent) ==
    /\ n.expression = None
    /\ IsNone(parent)
    /\ index = Len(blk)
    /\ index # 1
    /\ n.linenumber = blk[index - 1].linenumber

print_return(d, n, blk, index, parent) ==
    IF return_is_implicit(n, blk, index, parent) THEN d
    ELSE LET d1 == write(indent(advance_to_line(d, n.linenumber)), "return", n.id, 0, 0)
         IN IF n.expression # None THEN write(d1, "return expr", n.id, n.expression, 0)
            ELSE d1

print_jump(d, n) == write(indent(d), "jump", n.id, 0, 0)

\* ------------------------------------------------------------------- votes

should_come_before(first, second) == first.linenumber < second.linenumber

\* vote_offset with the adjustment for a screen child taken the other way
vote_offset_screen_down(n) ==
    IF Len(n.block) = 1 /\ ~should_come_before(n, n.block[1])
    THEN CASE n.block[1].kind = "Screen" -> n.priority - 500
           [] n.block[1].kind = "Testcase" -> n.priority - 500
           [] n.block[1].kind = "Image" -> n.priority - 500
           [] OTHER -> n.priority
    ELSE n.priority

\* set_best_init_offset: the offset one Init node votes for
vote_offset(n) ==
    IF Len(n.block) = 1 /\ ~should_come_before(n, n.block[1])
    THEN CASE n.block[1].kind = "Screen" -> n.priority + 500
           [] n.block[1].kind = "Testcase" -> n.priority - 500
           [] n.block[1].kind = "Image" -> n.priority - 500
           [] OTHER -> n.priority
    ELSE n.priority

\* the keys of the votes dict in insertion order, one entry per Init node
RECURSIVE vote_list(_)
vote_list(nodes) ==
    IF nodes = <<>> THEN <<>>
    ELSE (IF Head(nodes).kind = "Init" THEN <<vote_offset(Head(nodes))>> ELSE <<>>)
         \o vote_list(Tail(nodes))

votes_get(vl, offset) == Cardinality({i \in 1..Len(vl) : vl[i] = offset})

\* max(votes, key=votes.get): the first key, in insertion order, with the most votes
vote_winner(vl) ==
    LET best == CHOOSE i \in 1..Len(vl) :
                    /\ \A j \in 1..Len(vl) : votes_get(vl, vl[j]) <= votes_get(vl, vl[i])
                    /\ \A j \in 1..(i - 1) : votes_get(vl, vl[j]) < votes_get(vl, vl[i])
    IN vl[best]

\* set_init_offset: do_when_blank_line(do_set_init_offset)
set_init_offset(d, offset) == [d EXCEPT !.blank_line_queue = Append(@, offset)]

\* set_best_init_offset that installs the winner as soon as it has more votes
\* than offset 0
set_best_init_offset_eager(d, nodes) ==
    LET vl == vote_list(nodes)
    IN IF vl # <<>> /\ votes_get(vl, 0) < votes_get(vl, vote_winner(vl))
       THEN set_init_offset(d, vote_winner(vl))
       ELSE d

set_best_init_offset(d, nodes) ==
    LET vl == vote_list(nodes)
    IN IF vl # <<>> /\ votes_get(vl, 0) + 1 < votes_get(vl, vote_winner(vl))
       THEN set_init_offset(d, vote_winner(vl))
       ELSE d

\* ---------------------------------------------------------------- actions

StmtFrame == <<ast, options, status, error, scopes, sl, wk, fx>>

\* Decompiler.dump up to the loop of print_nodes
DumpBegin ==
    /\ status = "new"
    /\ LET d1 == IF options.init_offset THEN set_best_init_offset(dc, ast) ELSE dc
       IN dc' = [d1 EXCEPT !.indent_level = 0, !.linenumber = 1,
                           !.skip_indent_until_write = TRUE]
    /\ stack' = print_nodes(<<>>, ast, 0)
    /\ status' = "run"
    /\ UNCHANGED <<ast, options, error, scopes, sl, wk, fx>>

\* Decompiler.dump after print_nodes: the queue, the trailer, the assertion
DumpEnd ==
    /\ Running /\ Len(stack) = 1 /\ Top.f = "nodes" /\ Top.index > Len(Top.block)
    /\ LET d1 == run_blank_line_queue(dc, dc.blank_line_queue, None, <<>>)
           d2 == write([d1 EXCEPT !.blank_line_queue = dc.blank_line_queue],
                       "trailer", 0, 0, 2)
       IN /\ dc' = d2
          /\ IF d2.missing_init
             THEN /\ status' = "error"
                  /\ error' = [kind |-> "AssertionError", node |-> 0]
             ELSE /\ status' = "done"
                  /\ error' = error
    /\ stack' = <<>>
    /\ UNCHANGED <<ast, options, scopes, sl, wk, fx>>

\* print_nodes returns: the block is popped and the indent restored; a handler
\* that has nothing left to do returns with it
EndNodes ==
    /\ Running /\ Len(stack) > 1 /\ Top.f = "nodes" /\ Top.index > Len(Top.block)
    /\ dc' = increase_indent(dc, 0 - Top.extra)
    /\ LET rest == SubSeq(stack, 1, Len(stack) - 1)
       IN stack' = IF rest[Len(rest)].f = "nodes" THEN NextNode(rest) ELSE rest
    /\ UNCHANGED StmtFrame

PrintShow ==
    /\ AtKind("Show")
    /\ dc' = print_show(print_node_advance(dc, Cur), Cur)
    /\ stack' = NextNode(stack)
    /\ UNCHANGED StmtFrame

PrintScene ==
    /\ AtKind("Scene")
    /\ dc' = print_scene(print_node_advance(dc, Cur), Cur)
    /\ stack' = NextNode(stack)
    /\ UNCHANGED StmtFrame

PrintHide ==
    /\ AtKind("Hide")
    /\ dc' = print_hide(print_node_advance(dc, Cur), Cur)
    /\ stack' = NextNode(stack)
    /\ UNCHANGED StmtFrame

PrintWith ==
    /\ AtKind("With")
    /\ LET chk == IF Cur.paired # None THEN paired_with_check(Block, Index, Cur) ELSE "ok"
       IN IF chk = "ok"
          THEN /\ dc' = print_with(dc, Cur)
               /\ stack' = NextNode(stack)
               /\ UNCHANGED <<status, error>>
          ELSE Raise(dc, chk, Cur)
    /\ UNCHANGED <<ast, options, scopes, sl, wk, fx>>

PrintReturn ==
    /\ AtKind("Return")
    /\ dc' = print_return(dc, Cur, Block, Index, Parent)
    /\ stack' = NextNode(stack)
    /\ UNCHANGED StmtFrame

PrintJump ==
    /\ AtKind("Jump")
    /\ dc' = print_jump(print_node_advance(dc, Cur), Cur)
    /\ stack' = NextNode(stack)
    /\ UNCHANGED StmtFrame

\* print_call: the label that follows is written as the from clause; reading
\* self.block[self.index + 1] fails when the call is the last node
print_call(d, n, blk, index) ==
    write(indent(d), "call", n.id,
          IF blk[index + 1].kind = "Label" THEN blk[index + 1].id ELSE 0, 0)

PrintCall ==
    /\ AtKind("Call")
    /\ IF Index + 1 <= Len(Block)
       THEN /\ dc' = print_call(print_node_advance(dc, Cur), Cur, Block, Index)
            /\ stack' = NextNode(stack)
            /\ UNCHANGED <<status, error>>
       ELSE Raise(indent(print_node_advance(dc, Cur)), "IndexError", Cur)
    /\ UNCHANGED <<ast, options, scopes, sl, wk, fx>>

\* ----------------------------------------------------------- if and while

\* print_while: the header, then print_nodes(ast.block, 1)
PrintWhile ==
    /\ AtKind("While")
    /\ dc' = increase_indent(
                write(indent(print_node_advance(dc, Cur)), "while", Cur.id, 0, 0), 1)
    /\ stack' = print_nodes(stack, Cur.block, 1)
    /\ UNCHANGED StmtFrame

\* print_if up to its loop: without entries the handler returns
PrintIf ==
    /\ AtKind("If")
    /\ dc' = print_node_advance(dc, Cur)
    /\ stack' = IF Cur.items = <<>> THEN NextNode(stack)
                ELSE Append(stack, [f |-> "if", node |-> Cur, k |-> 1])
    /\ UNCHANGED StmtFrame

\* print_if, the header of one entry: `else:` for the last entry when its
\* condition is not a PyExpr, else `if` or `elif` after the advance to the
\* line of the condition
if_entry_header(d, node, k) ==
    LET entry == node.items[k]
    IN IF k = Len(node.items) /\ entry.condition = None
       THEN write(indent(d), "else", entry.id, 0, 0)
       ELSE write(indent(IF entry.condition # None
                         THEN advance_to_line(d, entry.condition) ELSE d),
                  IF k = 1 THEN "if" ELSE "elif", entry.id, 0, 0)

\* print_if, one turn of the loop: the block is printed only when it is not empty
IfEntry ==
    /\ Running /\ Top.f = "if" /\ Top.k <= Len(Top.node.items)
    /\ LET entry == Top.node.items[Top.k]
           d1 == if_entry_header(dc, Top.node, Top.k)
           st == [stack EXCEPT ![Len(stack)].k = @ + 1]
       IN IF entry.block # <<>>
          THEN /\ dc' = increase_indent(d1, 1)
               /\ stack' = print_nodes(st, entry.block, 1)
          ELSE /\ dc' = d1
               /\ stack' = st
    /\ UNCHANGED StmtFrame

\* print_if returns
IfEnd ==
    /\ Running /\ Top.f = "if" /\ Top.k > Len(Top.node.items)
    /\ dc' = dc
    /\ stack' = NextNode(SubSeq(stack, 1, Len(stack) - 1))
    /\ UNCHANGED StmtFrame

\* print_pass: the statement is part of a call statement printed before it
pass_after_call(n, blk, idx) ==
    \/ idx > 1 /\ blk[idx - 1].kind = "Call"
    \/ /\ idx > 2
       /\ blk[idx - 2].kind = "Call"
       /\ blk[idx - 1].kind = "Label"
       /\ blk[idx - 2].linenumber = n.linenumber

print_pass(d, n, blk, idx) ==
    IF pass_after_call(n, blk, idx) THEN d
    ELSE write(indent(advance_to_line(d, n.linenumber)), "pass", n.id, 0, 0)

PrintPass ==
    /\ AtKind("Pass")
    /\ dc' = print_pass(print_node_advance(dc, Cur), Cur, Block, Index)
    /\ stack' = NextNode(stack)
    /\ UNCHANGED StmtFrame

\* ------------------------------------------------------- label, say, menu

\* say_belongs_to_menu without the test of the first item of the menu
say_belongs_to_menu_any_item(say, menu) ==
    /\ ~say.interact
    /\ say.who
    /\ ~say.with_
    /\ ~say.attributes
    /\ menu.kind = "Menu"
    /\ ~should_come_before(say, menu)

\* Decompiler.say_belongs_to_menu; who, with_ and attributes TRUE stand for
\* "is not None", hasblock for items[0][2] is not None
say_belongs_to_menu(say, menu) ==
    /\ ~say.interact
    /\ say.who
    /\ ~say.with_
    /\ ~say.attributes
    /\ menu.kind = "Menu"
    /\ menu.items[1].hasblock
    /\ ~should_come_before(say, menu)

\* label_is_menu_label without the comparison of the line numbers
label_is_menu_label_any_line(n, blk, index) ==
    /\ n.block = <<>> /\ ~n.parameters
    /\ LET remaining_blocks == Len(blk) - (index - 1)
       IN \/ /\ remaining_blocks > 1
             /\ blk[index + 1].kind = "Menu"
          \/ /\ remaining_blocks > 2
             /\ blk[index + 1].kind = "Say"
             /\ blk[index + 2].kind = "Menu"
             /\ say_belongs_to_menu(blk[index + 1], blk[index + 2])

\* print_label: the label is the name of the menu that follows
label_is_menu_label(n, blk, index) ==
    /\ n.block = <<>> /\ ~n.parameters
    /\ LET remaining_blocks == Len(blk) - (index - 1)
       IN \/ /\ remaining_blocks > 1
             /\ blk[index + 1].kind = "Menu"
             /\ blk[index + 1].linenumber = n.linenumber
          \/ /\ remaining_blocks > 2
             /\ blk[index + 1].kind = "Say"
             /\ blk[index + 2].kind = "Menu"
             /\ blk[index + 2].linenumber = n.linenumber
             /\ say_belongs_to_menu(blk[index + 1], blk[index + 2])

\* print_label: a Call before the label prints it as its "from" clause
label_after_call(blk, index) == index > 1 /\ blk[index - 1].kind = "Call"

\* print_label from advance_to_line to the try statement: self afterwards
label_begin(d, n) ==
    LET d1 == new_stringio(indent(advance_to_line(d, n.linenumber)))
    IN write([d1 EXCEPT !.missing_init = FALSE], "label", n.id, 0, 0)

\* print_say: the statement is deferred into the menu that follows it
say_is_deferred(n, blk, index, inmenu) ==
    /\ ~inmenu
    /\ index + 1 <= Len(blk)
    /\ say_belongs_to_menu(n, blk[index + 1])

print_say(d, n, blk, index, inmenu) ==
    IF say_is_deferred(n, blk, index, inmenu)
    THEN [d EXCEPT !.say_inside_menu = n]
    ELSE write(indent(d), "say", n.id, 0, 0)

print_say_inside_menu(d) ==
    [print_say(d, d.say_inside_menu, <<>>, 0, TRUE) EXCEPT !.say_inside_menu = NoNode]

\* menu_begin that leaves label_inside_menu as it is
menu_begin_keeps_label(d, n) ==
    increase_indent(
        write(indent(d), "menu", n.id,
              IF IsNone(d.label_inside_menu) THEN 0 ELSE d.label_inside_menu.id, 0), 1)

\* print_menu up to the loop over the items (with_ and set are None)
menu_begin(d, n) ==
    LET d1 == write(indent(d), "menu", n.id,
                    IF IsNone(d.label_inside_menu) THEN 0 ELSE d.label_inside_menu.id, 0)
    IN increase_indent([d1 EXCEPT !.label_inside_menu = NoNode], 1)

\* print_menu, the loop body before print_menu_item: [d: self, state: the saved
\* state or <<>> for None]
menu_item_prepare(d, item) ==
    IF item.condition # None
    THEN [d |-> advance_to_line(
                  IF ~IsNone(d.say_inside_menu) /\ item.condition > d.linenumber + 1
                  THEN print_say_inside_menu(d) ELSE d,
                  item.condition),
          state |-> <<>>]
    ELSE IF ~IsNone(d.say_inside_menu)
         THEN [d |-> print_say_inside_menu(
                       [save_state(d) EXCEPT !.most_lines_behind = d.last_lines_behind]),
               state |-> <<saved_state(d)>>]
         ELSE [d |-> d, state |-> <<>>]

\* print_menu_item up to print_nodes(block, 1)
print_menu_item(d, item) == write(indent(d), "item", item.id, 0, 0)

\* the test of print_menu with >= in place of >
menu_attempt_failed_or_equal(d, state) == d.most_lines_behind >= state.last_lines_behind

\* print_menu: the say statement did not fit before the item just printed
menu_attempt_failed(d, state) == d.most_lines_behind > state.last_lines_behind

\* the attempt is kept with the most_lines_behind of the attempt alone
menu_commit_keeps_attempt(d, state) == commit_state(d, state)

\* print_menu: the attempt is kept
menu_commit(d, state) ==
    commit_state([d EXCEPT !.most_lines_behind =
                      Max(state.most_lines_behind, d.most_lines_behind)], state)

MenuFrame(n) == [f |-> "menu", node |-> n, k |-> 1, phase |-> "item",
                 state |-> <<>>, scope |-> 0]

\* some node of the block, at any depth, is a dialogue line
RECURSIVE HasSay(_)
HasSay(blk) ==
    \E i \in 1..Len(blk) :
        \/ blk[i].kind = "Say"
        \/ HasSay(blk[i].block)
        \/ \E j \in 1..Len(blk[i].items) : HasSay(blk[i].items[j].block)

\* A history record of one save_state call of print_menu: the menu, the item and
\* the dialogue line of the attempt, the sink that was active and its last
\* token, the scopes open around it, and, once it is closed, how it ended and
\* the text its buffer held then.
Scope(d, menu, k) ==
    [menu |-> menu.id, item |-> menu.items[k].id, say |-> d.say_inside_menu.id,
     items |-> [i \in 1..Len(menu.items) |-> menu.items[i].id],
     lastitem |-> k = Len(menu.items),
     plain |-> ~HasSay(menu.items[k].block),
     parent |-> d.out_file,
     prev |-> IF d.files[d.out_file] = <<>> THEN 0
              ELSE TSerial(d.files[d.out_file][Len(d.files[d.out_file])]),
     outcome |-> "open", text |-> <<>>, saved |-> d,
     enclosing |-> {i \in 1..Len(scopes) : scopes[i].outcome = "open"}]

PrintLabel ==
    /\ AtKind("Label")
    /\ IF label_after_call(Block, Index)
       THEN /\ dc' = dc
            /\ stack' = NextNode(stack)
       ELSE IF label_is_menu_label(Cur, Block, Index)
            THEN /\ dc' = [dc EXCEPT !.label_inside_menu = Cur]
                 /\ stack' = NextNode(stack)
            ELSE /\ dc' = increase_indent(label_begin(dc, Cur), 1)
                 /\ stack' = print_nodes(
                        Append(stack, [f |-> "label", node |-> Cur,
                                       out_file |-> dc.out_file,
                                       missing_init |-> dc.missing_init]),
                        Cur.block, 1)
    /\ UNCHANGED StmtFrame

\* print_label: print_nodes returned, the finally clause runs
LabelEnd ==
    /\ Running /\ Top.f = "label"
    /\ dc' = label_finally(dc, Top)
    /\ stack' = NextNode(SubSeq(stack, 1, Len(stack) - 1))
    /\ UNCHANGED StmtFrame

PrintSay ==
    /\ AtKind("Say")
    /\ dc' = print_say(print_node_advance(dc, Cur), Cur, Block, Index, FALSE)
    /\ stack' = NextNode(stack)
    /\ UNCHANGED StmtFrame

PrintMenu ==
    /\ AtKind("Menu")
    /\ dc' = menu_begin(print_node_advance(dc, Cur), Cur)
    /\ stack' = Append(stack, MenuFrame(Cur))
    /\ UNCHANGED StmtFrame

\* print_menu, one turn of the loop up to the return of print_menu_item's
\* print_nodes
MenuItem ==
    /\ Running /\ Top.f = "menu" /\ Top.phase = "item" /\ Top.k <= Len(Top.node.items)
    /\ LET item == Top.node.items[Top.k]
           r == menu_item_prepare(dc, item)
           d1 == print_menu_item(r.d, item)
           fr == [Top EXCEPT !.phase = "after", !.state = r.state,
                             !.scope = IF r.state = <<>> THEN 0 ELSE Len(scopes) + 1]
           st == [stack EXCEPT ![Len(stack)] = fr]
       IN /\ scopes' = IF r.state = <<>> THEN scopes
                       ELSE Append(scopes, Scope(dc, Top.node, Top.k))
          /\ IF item.hasblock
             THEN /\ dc' = increase_indent(d1, 1)
                  /\ stack' = print_nodes(st, item.block, 1)
             ELSE /\ dc' = d1
                  /\ stack' = st
    /\ UNCHANGED <<ast, options, status, error, sl, wk, fx>>

\* print_menu, the rest of the turn: undo and print the item again, or commit
MenuItemAfter ==
    /\ Running /\ Top.f = "menu" /\ Top.phase \in {"after", "retried"}
    /\ LET item == Top.node.items[Top.k]
           next == [Top EXCEPT !.phase = "item", !.k = @ + 1, !.state = <<>>, !.scope = 0]
       IN IF Top.phase = "after" /\ Top.state # <<>>
          THEN IF menu_attempt_failed(dc, Top.state[1])
               THEN LET d1 == print_menu_item(rollback_state(dc, Top.state[1]), item)
                        st == [stack EXCEPT ![Len(stack)].phase = "retried"]
                    IN /\ scopes' = [scopes EXCEPT ![Top.scope].outcome = "rollback",
                                                   ![Top.scope].text = dc.files[dc.out_file]]
                       /\ IF item.hasblock
                          THEN /\ dc' = increase_indent(d1, 1)
                               /\ stack' = print_nodes(st, item.block, 1)
                          ELSE /\ dc' = d1
                               /\ stack' = st
               ELSE /\ dc' = menu_commit(dc, Top.state[1])
                    /\ scopes' = [scopes EXCEPT ![Top.scope].outcome = "commit",
                                                ![Top.scope].text = dc.files[dc.out_file]]
                    /\ stack' = [stack EXCEPT ![Len(stack)] = next]
          ELSE /\ dc' = dc
               /\ scopes' = scopes
               /\ stack' = [stack EXCEPT ![Len(stack)] = next]
    /\ UNCHANGED <<ast, options, status, error, sl, wk, fx>>

\* print_menu after the loop
MenuEnd ==
    /\ Running /\ Top.f = "menu" /\ Top.phase = "item" /\ Top.k > Len(Top.node.items)
    /\ dc' = increase_indent(
                IF ~IsNone(dc.say_inside_menu) THEN print_say_inside_menu(dc) ELSE dc,
                0 - 1)
    /\ stack' = NextNode(SubSeq(stack, 1, Len(stack) - 1))
    /\ UNCHANGED StmtFrame

\* ------------------------------------------------- init and what needs it

\* require_init that does not look at in_init
require_init_anywhere(d) == [d EXCEPT !.missing_init = TRUE]

require_init(d) == IF ~d.in_init THEN [d EXCEPT !.missing_init = TRUE] ELSE d

\* init_is_implicit that asks of every kind the priority of its implicit block
init_is_implicit_at_default(d, n) ==
    /\ Len(n.block) = 1
    /\ \/ n.priority = d.init_offset
              /\ n.block[1].kind \in {"Define", "Default", "Transform", "Style"}
       \/ n.priority = 0 - 500 + d.init_offset /\ n.block[1].kind = "Screen"
       \/ n.priority = 500 + d.init_offset /\ n.block[1].kind \in {"Testcase", "Image"}
    /\ ~should_come_before(n, n.block[1])

\* print_init: the statement has an implicit init block, only the child is printed
init_is_implicit(d, n) ==
    /\ Len(n.block) = 1
    /\ \/ n.block[1].kind \in {"Define", "Default", "Transform"}
       \/ n.priority = 0 - 500 + d.init_offset /\ n.block[1].kind = "Screen"
       \/ n.priority = d.init_offset /\ n.block[1].kind = "Style"
       \/ n.priority = 500 + d.init_offset /\ n.block[1].kind = "Testcase"
       \/ n.priority = 500 + d.init_offset /\ n.block[1].kind = "Image"
    /\ ~should_come_before(n, n.block[1])

\* print_init: an init block of translate strings statements of one language
init_is_translatestrings(d, n) ==
    /\ Len(n.block) > 0
    /\ n.priority = d.init_offset
    /\ \A i \in 1..Len(n.block) : n.block[i].kind = "TranslateString"

\* print_init: the block is printed on the line of the init keyword
init_is_oneline(n) == Len(n.block) = 1 /\ ~should_come_before(n, n.block[1])

\* the priority written after a keyword: 0 stands for none written
priority_text(d, priority) ==
    IF priority # d.init_offset THEN priority - d.init_offset ELSE 0

\* print_init up to its print_nodes call: self afterwards
print_init(d, n) ==
    LET d0 == [d EXCEPT !.in_init = TRUE]
    IN IF init_is_implicit(d0, n) \/ init_is_translatestrings(d0, n) THEN d0
       ELSE LET d1 == write(indent(d0), "init", n.id, priority_text(d0, n.priority), 0)
            IN IF init_is_oneline(n)
               THEN [d1 EXCEPT !.skip_indent_until_write = TRUE]
               ELSE increase_indent(d1, 1)

\* the extra_indent print_init passes to print_nodes
init_extra_indent(d, n) ==
    IF init_is_implicit([d EXCEPT !.in_init = TRUE], n)
       \/ init_is_translatestrings([d EXCEPT !.in_init = TRUE], n)
       \/ init_is_oneline(n)
    THEN 0 ELSE 1

\* the priority of the implicit init block taken as it is, whatever the offset
implicit_priority_absolute(d, n, parent) ==
    IF parent.kind = "Init"
       /\ parent.priority # 0
       /\ Len(parent.block) = 1
       /\ ~should_come_before(parent, n)
    THEN parent.priority
    ELSE 0

\* print_define, print_default, print_transform: the priority of the implicit
\* init block, written after the keyword
implicit_priority(d, n, parent) ==
    IF parent.kind = "Init"
       /\ parent.priority # d.init_offset
       /\ Len(parent.block) = 1
       /\ ~should_come_before(parent, n)
    THEN parent.priority - d.init_offset
    ELSE 0

print_define(d, n, parent) ==
    write(indent(require_init(d)), "define", n.id, implicit_priority(d, n, parent), 0)
print_default(d, n, parent) ==
    write(indent(require_init(d)), "default", n.id, implicit_priority(d, n, parent), 0)
print_transform(d, n, parent) ==
    write(indent(require_init(d)), "transform", n.id, implicit_priority(d, n, parent), 0)
print_image(d, n) == write(indent(require_init(d)), "image", n.id, 0, 0)
print_style(d, n) == write(indent(require_init(d)), "style", n.id, 0, 0)
\* a SLScreen without parameters, keywords or children, through sl2decompiler.pprint
print_screen(d, n) == write(indent(require_init(d)), "screen", n.id, 0, 0)
\* a Testcase with an empty test block, through testcasedecompiler.pprint
print_testcase(d, n) == write(indent(require_init(d)), "testcase", n.id, 0, 0)

print_translatestring(d, n, blk, index) ==
    LET d0 == require_init(d)
        d1 == IF index > 1 /\ blk[index - 1].kind = "TranslateString" THEN d0
              ELSE write(indent(d0), "translate strings", n.id, 0, 0)
        d2 == write(indent(advance_to_line(increase_indent(d1, 1), n.linenumber)),
                    "old", n.id, 0, 0)
        d3 == write(indent(d2), "new", n.id, 0, 0)
    IN increase_indent(d3, 0 - 1)

PrintInit ==
    /\ AtKind("Init")
    /\ LET d0 == print_node_advance(dc, Cur)
       IN /\ dc' = print_init(d0, Cur)
          /\ stack' = print_nodes(
                 Append(stack, [f |-> "init", node |-> Cur, in_init |-> dc.in_init]),
                 Cur.block, init_extra_indent(d0, Cur))
    /\ UNCHANGED StmtFrame

\* print_init: print_nodes returned, the finally clause runs
InitEnd ==
    /\ Running /\ Top.f = "init"
    /\ dc' = [dc EXCEPT !.in_init = Top.in_init]
    /\ stack' = NextNode(SubSeq(stack, 1, Len(stack) - 1))
    /\ UNCHANGED StmtFrame

\* print_translateblock: a block of one python or style statement counts as
\* an init block
translateblock_is_init(n) ==
    Len(n.block) = 1 /\ n.block[1].kind \in {"Python", "Style"}

\* print_translateblock up to its print_nodes call: self afterwards
print_translateblock(d, n) ==
    [write(indent(d), "translate", n.id, 0, 0)
        EXCEPT !.skip_indent_until_write = TRUE,
               !.in_init = @ \/ translateblock_is_init(n)]

PrintTranslateBlock ==
    /\ AtKind("TranslateBlock")
    /\ dc' = print_translateblock(print_node_advance(dc, Cur), Cur)
    /\ stack' = print_nodes(
           Append(stack, [f |-> "translate", node |-> Cur, in_init |-> dc.in_init]),
           Cur.block, 0)
    /\ UNCHANGED StmtFrame

\* print_translateblock: print_nodes returned, the finally clause runs
TranslateBlockEnd ==
    /\ Running /\ Top.f = "translate"
    /\ dc' = [dc EXCEPT !.in_init = Top.in_init]
    /\ stack' = NextNode(SubSeq(stack, 1, Len(stack) - 1))
    /\ UNCHANGED StmtFrame

PrintDefine ==
    /\ AtKind("Define")
    /\ dc' = print_define(print_node_advance(dc, Cur), Cur, Parent)
    /\ stack' = NextNode(stack)
    /\ UNCHANGED StmtFrame

PrintDefault ==
    /\ AtKind("Default")
    /\ dc' = print_default(print_node_advance(dc, Cur), Cur, Parent)
    /\ stack' = NextNode(stack)
    /\ UNCHANGED StmtFrame

PrintTransform ==
    /\ AtKind("Transform")
    /\ dc' = print_transform(print_node_advance(dc, Cur), Cur, Parent)
    /\ stack' = NextNode(stack)
    /\ UNCHANGED StmtFrame

PrintImage ==
    /\ AtKind("Image")
    /\ dc' = print_image(print_node_advance(dc, Cur), Cur)
    /\ stack' = NextNode(stack)
    /\ UNCHANGED StmtFrame

PrintStyle ==
    /\ AtKind("Style")
    /\ dc' = print_style(print_node_advance(dc, Cur), Cur)
    /\ stack' = NextNode(stack)
    /\ UNCHANGED StmtFrame

PrintScreen ==
    /\ AtKind("Screen")
    /\ dc' = print_screen(print_node_advance(dc, Cur), Cur)
    /\ stack' = NextNode(stack)
    /\ UNCHANGED StmtFrame

PrintTestcase ==
    /\ AtKind("Testcase")
    /\ dc' = print_testcase(print_node_advance(dc, Cur), Cur)
    /\ stack' = NextNode(stack)
    /\ UNCHANGED StmtFrame

PrintTranslateString ==
    /\ AtKind("TranslateString")
    /\ dc' = print_translatestring(dc, Cur, Block, Index)
    /\ stack' = NextNode(stack)
    /\ UNCHANGED StmtFrame

\* ------------------------------------------------------ the trees explored

With(line, paired, expr) == [Node("With", line) EXCEPT !.paired = paired, !.expr = expr]
Return(line, expression) == [Node("Return", line) EXCEPT !.expression = expression]
Label(line, blk) == [Node("Label", line) EXCEPT !.block = blk]
Menu(line, its) == [Node("Menu", line) EXCEPT !.items = its]
\* a dialogue line that may belong to a menu: non-interactive, with a speaker
MenuSay(line) == [Node("Say", line) EXCEPT !.interact = FALSE]
InitBlock(line, priority, blk) ==
    [Node("Init", line) EXCEPT !.priority = priority, !.block = blk]

\* the statements tried at one position of a block of simple statements
StmtChoices(line) ==
    {Node("Show", line), Node("Scene", line), Node("Hide", line), Node("Jump", line),
     Return(line, None), Return(line, 1)}
    \cup {With(line, pd, e) : pd \in {None, 1}, e \in {1, 2}}
    \cup (IF line > 1 THEN {Return(line - 1, None)} ELSE {})

RECURSIVE StmtBlocks(_, _)
StmtBlocks(n, line) ==
    IF n = 0 THEN {<<>>}
    ELSE {<<st>> \o rest : st \in StmtChoices(line), rest \in StmtBlocks(n - 1, line + 1)}

\* blocks of simple statements, at the top level and as the body of a label
StmtTrees ==
    UNION {StmtBlocks(n, 1) : n \in 1..MaxBlock}
    \cup {IF alone THEN <<Label(1, b)>>
          ELSE <<Node("Jump", 1), Label(1, b), Return(1, None)>> :
             b \in StmtBlocks(MaxBlock - 1, 2), alone \in BOOLEAN}

\* most entries of an if statement
MaxEntries == 2

While(line, blk) == [Node("While", line) EXCEPT !.block = blk]
If(line, entries) == [Node("If", line) EXCEPT !.items = entries]

\* the block of an if entry or of a while statement: empty, a pass statement, a
\* jump
BranchBlocks(line) == {<<>>, <<Node("Pass", line)>>, <<Node("Jump", line)>>}

\* the entries of an if statement: (condition, block) with the condition a
\* PyExpr on its line, the last one possibly the string "True"
RECURSIVE IfEntries(_, _)
IfEntries(n, line) ==
    IF n = 0 THEN {<<>>}
    ELSE {<<Item(c, b)>> \o rest :
             c \in {line} \cup (IF n = 1 THEN {None} ELSE {}),
             b \in BranchBlocks(line + 1), rest \in IfEntries(n - 1, line + 2)}

\* if and while statements at the top level, alone and before a jump
BranchTrees ==
    {IF alone THEN <<st>> ELSE <<st, Node("Jump", 9)>> :
        st \in {While(1, b) : b \in BranchBlocks(2)}
               \cup {If(1, es) : es \in UNION {IfEntries(n, 1) : n \in 0..MaxEntries}},
        alone \in BOOLEAN}

\* the block of a menu item: a statement on some line, a nested menu with its
\* own dialogue line, or a declaration that needs an init block
NestedMenu(line, jumpline) ==
    <<MenuSay(line), Menu(line, <<Item(None, <<Node("Jump", jumpline)>>)>>)>>
ItemBlocks ==
    {<<Node("Jump", l)>> : l \in {2, 3, 5}}
    \cup {NestedMenu(3, 6), NestedMenu(4, 5)}
    \cup {<<Node("Define", 3)>>, <<Label(3, <<Node("Define", 4)>>)>>}

ItemChoices == {Item(c, b) : c \in {None, 4}, b \in ItemBlocks}

RECURSIVE ItemSeqs(_)
ItemSeqs(n) ==
    IF n = 0 THEN {<<>>}
    ELSE {<<it>> \o rest : it \in ItemChoices, rest \in ItemSeqs(n - 1)}

Menus == {Menu(1, its) : its \in UNION {ItemSeqs(n) : n \in 1..MaxItems}}

\* a menu: alone, after its dialogue line, after its label and dialogue line,
\* and as the body of a label
MenuTree(m, shape) ==
    CASE shape = "alone" -> <<m>>
      [] shape = "say" -> <<MenuSay(1), m>>
      [] shape = "label say" -> <<Label(1, <<>>), MenuSay(1), m, Node("Jump", 9)>>
      [] shape = "body" -> <<Label(1, <<MenuSay(1), m>>)>>

MenuTrees ==
    {MenuTree(m, shape) : m \in Menus, shape \in {"alone", "say", "label say", "body"}}

\* the dialogue lines tried before a menu: one that can belong to it, and one
\* that fails each of the tests in turn
SayChoices(line) ==
    {MenuSay(line), Node("Say", line),
     [MenuSay(line) EXCEPT !.who = FALSE],
     [MenuSay(line) EXCEPT !.with_ = TRUE],
     [MenuSay(line) EXCEPT !.attributes = TRUE]}

\* the labels tried before a menu: without body and parameters, with
\* parameters, with a body
LabelChoices ==
    {Label(1, <<>>), [Label(1, <<>>) EXCEPT !.parameters = TRUE],
     Label(1, <<Node("Jump", 1)>>)}

\* the menus tried after a label or a dialogue line: one item whose condition
\* has no line, one with a line, one without a block
PlainMenus(line) ==
    {Menu(line, <<it>>) :
        it \in {Item(None, <<Node("Jump", line + 2)>>),
                Item(line + 2, <<Node("Jump", line + 3)>>),
                [Item(None, <<>>) EXCEPT !.hasblock = FALSE]}}

\* a label, a dialogue line or both before a menu on the same or the next
\* line, with and without a statement after the menu
LabelMenuTrees ==
    {lab \o say \o <<m>> \o rest :
        lab \in {<<>>} \cup {<<l>> : l \in LabelChoices},
        say \in {<<>>} \cup {<<y>> : y \in SayChoices(1) \cup {MenuSay(2), MenuSay(3)}},
        m \in PlainMenus(1) \cup PlainMenus(2),
        rest \in {<<>>, <<Node("Jump", 9)>>}}
    \cup {<<Label(1, <<>>), Node("Jump", 1)>>, <<Label(1, <<>>)>>,
          <<Label(1, <<>>), MenuSay(1)>>,
          <<Label(1, <<>>), MenuSay(1), Node("Jump", 1)>>}

\* a paired transition, a label and a dialogue line of a menu in one block, and
\* a paired transition around a label whose body does or does not use it
DeferredTrees ==
    {<<With(1, 1, 2), Node("Show", 1), With(1, None, 1),
       Label(2, <<>>), MenuSay(2), Menu(2, <<Item(None, <<Node("Jump", 4)>>)>>)>>}
    \cup {<<With(1, 1, 2), Label(1, <<n>>), With(3, None, 1)>> :
             n \in {Node("Show", 2), Node("Jump", 2), With(2, None, 2)}}

\* a paired transition around a label whose body holds two statements that
\* take a with clause
PairedTwiceTrees ==
    {<<With(1, 1, 2), Label(1, <<Node("Show", 2), n>>), With(4, None, 1)>> :
        n \in {Node("Show", 3), Node("Scene", 3), Node("Hide", 3)}}

TranslateBlock(line, blk) == [Node("TranslateBlock", line) EXCEPT !.block = blk]

\* translate blocks at the top level, in a label and in an init block;
\* declarations under an if or while statement of a label; a call at the end of
\* a block, whose handler fails, inside each of the three
TranslateTrees ==
    {<<TranslateBlock(1, <<n>>)>> :
        n \in {Node("Style", 1), Node("Jump", 1), Node("Define", 1), Node("Call", 1)}}
    \cup {<<Label(1, b)>> :
             b \in {<<TranslateBlock(2, <<Node("Style", 2)>>)>>,
                    <<TranslateBlock(2, <<Node("Style", 2)>>), Node("Define", 3)>>,
                    <<TranslateBlock(2, <<Node("Define", 2)>>)>>,
                    <<If(2, <<Item(2, <<Node("Define", 3)>>)>>)>>,
                    <<While(2, <<Node("Image", 3)>>)>>,
                    <<InitBlock(2, 0, <<Node("Define", 3), Node("Define", 4)>>)>>,
                    <<Node("Define", 2), Node("Call", 3)>>,
                    <<Node("Jump", 2), Node("Call", 3)>>,
                    <<Label(2, <<Node("Define", 3), Node("Call", 4)>>)>>}}
    \cup {<<InitBlock(1, 0, b)>> :
             b \in {<<TranslateBlock(2, <<Node("Style", 2)>>), Node("Define", 3)>>,
                    <<TranslateBlock(2, <<Node("Jump", 2)>>), Node("Define", 3)>>,
                    <<Node("Jump", 2), Node("Call", 3)>>,
                    <<Label(2, <<Node("Define", 3)>>), Node("Define", 4)>>}}

\* call statements as the compiler emits them: a Call is followed by its Label
\* (the from clause) and a Pass, or by a Pass alone
CallTrees ==
    {pre \o <<Node("Call", l)>> \o (IF from THEN <<Label(l, <<>>)>> ELSE <<>>)
         \o <<Node("Pass", l)>> \o rest :
        pre \in {<<>>, <<Node("Jump", 1)>>},
        l \in {1, 2},
        from \in BOOLEAN,
        rest \in {<<>>, <<Node("Jump", 4)>>}
                 \cup {<<m>> : m \in PlainMenus(3)}
                 \cup {<<MenuSay(3), m>> : m \in PlainMenus(3)}}
    \cup {<<Node("Call", 1)>>, <<Label(1, <<Node("Call", 2), Node("Pass", 2)>>)>>}

\* a statement that is behind its line, then a dialogue line and its menu
\* whose item has room for the dialogue line, or has not
BehindTrees ==
    {<<Node("Jump", 3), Node("Jump", 1), MenuSay(6),
       Menu(6, <<Item(None, <<Node("Jump", j)>>)>>)>> : j \in {8, 9}}

\* a dialogue line before a menu whose item has a condition on the next line
\* and holds a menu without a dialogue line of its own
NestedPlainTrees ==
    {<<MenuSay(1),
       Menu(1, <<Item(2, <<Menu(3, <<Item(None, <<Node("Jump", j)>>)>>)>>)>>)>> :
        j \in {5, 6}}

\* an init block or a declaration at one position of the top level
InitChoices(line) ==
    {InitBlock(line, 0, <<Node("Define", line)>>),
     InitBlock(line, 5, <<Node("Define", line)>>),
     InitBlock(line, 0 - 495, <<Node("Screen", line)>>),
     InitBlock(line, 505, <<Node("Image", line)>>),
     InitBlock(line, 5, <<Node("Define", line + 1), Node("Define", line + 1)>>),
     Node("Define", line)}

\* the kinds tried once each, after a prefix
InitSingles(line) ==
    {InitBlock(line, p, <<Node(k, line)>>) :
        p \in {0, 5, 500, 505, 0 - 500},
        k \in {"Default", "Transform", "Style", "Testcase", "Screen", "Image"}}
    \cup {InitBlock(line, 5, <<Node("Define", line + 1)>>),
          InitBlock(line, 5, <<Node("TranslateString", line + 1),
                               Node("TranslateString", line + 3)>>),
          Label(line, <<Node("Define", line + 1)>>),
          Label(line, <<InitBlock(line + 1, 0, <<Node("Define", line + 1)>>)>>),
          Label(line, <<Label(line + 1, <<Node("Image", line + 2)>>)>>),
          Node("Image", line), Node("Transform", line), Node("Default", line),
          Node("Style", line), Node("Screen", line), Node("Testcase", line),
          Node("TranslateString", line)}

\* first line and line spacing of the top-level nodes: no blank line at all, a
\* blank line before each node but the first, blank lines before every node
Layouts == {<<1, 1>>, <<1, 2>>, <<3, 2>>}

RECURSIVE InitSeqs(_, _, _)
InitSeqs(n, line, step) ==
    IF n = 0 THEN {<<>>}
    ELSE {<<x>> \o rest : x \in InitChoices(line), rest \in InitSeqs(n - 1, line + step, step)}

\* the example of the voting rule: four wrappers at priority 5, one at 0
VotingExample(first, step) ==
    <<InitBlock(first, 5, <<Node("Define", first)>>),
      InitBlock(first + step, 5, <<Node("Define", first + step)>>),
      InitBlock(first + 2 * step, 5, <<Node("Define", first + 2 * step)>>),
      InitBlock(first + 3 * step, 5, <<Node("Define", first + 3 * step)>>),
      InitBlock(first + 4 * step, 0, <<Node("Define", first + 4 * step)>>)>>

\* one node of InitSingles, alone and after two wrappers at priority 5
InitSingleTrees(first, step) ==
    {IF alone THEN <<x>>
     ELSE <<InitBlock(first, 5, <<Node("Define", first)>>),
            InitBlock(first + step, 5, <<Node("Define", first + step)>>),
            x>> :
        x \in InitSingles(first + 2 * step), alone \in BOOLEAN}

\* a menu with its dialogue line after two wrappers at priority 5 on the lines
\* before it: the baseline 5 is voted and its directive is still waiting for a
\* blank line when the menu is printed; and a label whose body leaves two lines
\* blank, followed by a jump further down
VotingMenuTrees ==
    {<<InitBlock(1, 5, <<Node("Define", 1)>>), InitBlock(2, 5, <<Node("Define", 2)>>),
       MenuSay(3), Menu(3, its)>> : its \in ItemSeqs(1)}
    \cup {<<InitBlock(1, 5, <<Node("Define", 1)>>), InitBlock(2, 5, <<Node("Define", 2)>>),
            Label(3, <<Node("Jump", 6)>>), Node("Jump", l)>> : l \in {7, 9}}

InitTrees ==
    UNION {InitSeqs(n, lay[1], lay[2]) : n \in 1..MaxInits, lay \in Layouts}
    \cup UNION {InitSingleTrees(lay[1], lay[2]) : lay \in Layouts}
    \cup {VotingExample(lay[1], lay[2]) : lay \in Layouts}

\* ----------------------------------- the UI engine (sl2decompiler.py)

\* One (name, value) pair of node.keyword: linenumber None is the value None
SLKeyword(name, line) == [name |-> name, linenumber |-> line]

\* One child node: location is location[1]; displayable is isinstance(child,
\* SLDisplayable), haschildren is bool(child.children)
SLChild(name, line) ==
    [name |-> name, location |-> line, displayable |-> TRUE, haschildren |-> TRUE]

\* A SLScreen, SLDisplayable or SLBlock: tag / variable FALSE and atl_transform
\* None are the absent attributes; displayable is the class name of the
\* implementation
SLNode(kind, line, keyword, children) ==
    [kind |-> kind, location |-> line, keyword |-> keyword, children |-> children,
     tag |-> FALSE, variable |-> FALSE, atl_transform |-> None,
     displayable |-> "Window", style |-> "frame"]

\* (lineno, type, content) of contents_in_order
Entry(lineno, ty, content) == [lineno |-> lineno, ty |-> ty, content |-> content]

\* (lineno, type, keywords, content) of contents_grouped: content is the child,
\* the broken keyword or the transform, "" when the tuple has three elements
Unit(lineno, ty, keywords, content) ==
    [lineno |-> lineno, ty |-> ty, keywords |-> keywords, content |-> content]

keywords_by_line(keywords) ==
    [i \in 1..Len(keywords) |->
        Entry(keywords[i].linenumber,
              IF keywords[i].linenumber # None THEN "keyword" ELSE "broken",
              keywords[i].name)]

children_by_line(children) ==
    [i \in 1..Len(children) |-> Entry(children[i].location, "child", children[i].name)]

\* the merge loop that takes the keyword when its line is the greater one
RECURSIVE merge_contents_reversed(_, _)
merge_contents_reversed(kws, chs) ==
    IF kws = <<>> THEN chs
    ELSE IF chs = <<>> THEN kws
    ELSE IF Head(kws).lineno = None \/ Head(kws).lineno > Head(chs).lineno
         THEN <<Head(kws)>> \o merge_contents_reversed(Tail(kws), chs)
         ELSE <<Head(chs)>> \o merge_contents_reversed(kws, Tail(chs))

\* sort_keywords_and_children, the three while loops: both lists are consumed
\* from their front
RECURSIVE merge_contents(_, _)
merge_contents(kws, chs) ==
    IF kws = <<>> THEN chs
    ELSE IF chs = <<>> THEN kws
    ELSE IF Head(kws).lineno = None \/ Head(kws).lineno < Head(chs).lineno
         THEN <<Head(kws)>> \o merge_contents(Tail(kws), chs)
         ELSE <<Head(chs)>> \o merge_contents(kws, Tail(chs))

\* sort_keywords_and_children: contents_in_order.insert(index, atl entry)
insert_atl(contents, atl_lineno) ==
    LET later == {i \in 1..Len(contents) :
                     contents[i].lineno # None /\ atl_lineno < contents[i].lineno}
        index == IF later = {} THEN Len(contents) + 1
                 ELSE CHOOSE i \in later : \A j \in later : i <= j
    IN SubSeq(contents, 1, index - 1) \o <<Entry(atl_lineno, "atl", "atl")>>
       \o SubSeq(contents, index, Len(contents))

\* sort_keywords_and_children, the grouping loop: current is <<>> for
\* current_keyword_line None, else <<the accumulated keywords unit>>
RECURSIVE group_contents(_, _, _)
group_contents(contents, current, grouped) ==
    IF contents = <<>> THEN grouped \o current
    ELSE LET e == Head(contents)
             rest == Tail(contents)
         IN IF current = <<>>
            THEN CASE e.ty = "child" ->
                        group_contents(rest, <<>>,
                            Append(grouped, Unit(e.lineno, "child", <<>>, e.content)))
                   [] e.ty = "keyword" ->
                        group_contents(rest,
                            <<Unit(e.lineno, "keywords", <<e.content>>, "")>>, grouped)
                   [] e.ty = "broken" ->
                        group_contents(rest, <<>>,
                            Append(grouped,
                                   Unit(e.lineno, "keywords_broken", <<>>, e.content)))
                   [] e.ty = "atl" ->
                        group_contents(rest, <<>>,
                            Append(grouped, Unit(e.lineno, "keywords_atl", <<>>, e.content)))
            ELSE CASE e.ty = "child" ->
                        group_contents(rest, <<>>,
                            grouped \o current
                            \o <<Unit(e.lineno, "child", <<>>, e.content)>>)
                   [] e.ty = "keyword" ->
                        IF current[1].lineno = e.lineno
                        THEN group_contents(rest,
                                 <<[current[1] EXCEPT !.keywords = Append(@, e.content)]>>,
                                 grouped)
                        ELSE group_contents(rest,
                                 <<Unit(e.lineno, "keywords", <<e.content>>, "")>>,
                                 grouped \o current)
                   [] e.ty = "broken" ->
                        group_contents(rest, <<>>,
                            Append(grouped,
                                   Unit(current[1].lineno, "keywords_broken",
                                        current[1].keywords, e.content)))
                   [] e.ty = "atl" ->
                        IF current[1].lineno = e.lineno
                        THEN group_contents(rest, <<>>,
                                 Append(grouped,
                                        Unit(e.lineno, "keywords_atl",
                                             current[1].keywords, e.content)))
                        ELSE group_contents(rest, <<>>,
                                 grouped \o current
                                 \o <<Unit(e.lineno, "keywords_atl", <<>>, e.content)>>)

\* the loop that gives the start line to every broken keyword that has none
RECURSIVE assign_broken_lines_at_start(_, _, _)
assign_broken_lines_at_start(grouped, i, start_lineno) ==
    IF i > Len(grouped) THEN grouped
    ELSE IF grouped[i].ty = "keywords_broken" /\ grouped[i].lineno = None
         THEN assign_broken_lines_at_start(
                  [grouped EXCEPT ![i] =
                      Unit(start_lineno, "keywords_broken", <<>>, grouped[i].content)],
                  i + 1, start_lineno)
         ELSE assign_broken_lines_at_start(grouped, i + 1, start_lineno)

\* sort_keywords_and_children: the loop that gives a line to the broken keywords
\* that have none, from position i on
RECURSIVE assign_broken_lines(_, _, _)
assign_broken_lines(grouped, i, start_lineno) ==
    IF i > Len(grouped) THEN grouped
    ELSE IF grouped[i].ty = "keywords_broken" /\ grouped[i].lineno = None
         THEN assign_broken_lines(
                  [grouped EXCEPT ![i] =
                      Unit(IF i # 1 THEN grouped[i - 1].lineno + 1 ELSE start_lineno,
                           "keywords_broken", <<>>, grouped[i].content)],
                  i + 1, start_lineno)
         ELSE assign_broken_lines(grouped, i + 1, start_lineno)

\* the first entry whose type starts with "keywords", 0 when the for loop ends
\* without break
first_keywords_entry(grouped) ==
    LET ks == {i \in 1..Len(grouped) : grouped[i].ty # "child"}
    IN IF ks = {} THEN 0 ELSE CHOOSE i \in ks : \A j \in ks : i <= j

\* sort_keywords_and_children: if keyword_tag
add_keyword_tag(grouped, block_lineno) ==
    LET unit == Unit(block_lineno + 1, "keywords", <<"tag">>, "")
        k == first_keywords_entry(grouped)
    IN IF grouped = <<>> THEN <<unit>>
       ELSE IF grouped[1].lineno > block_lineno + 1 THEN <<unit>> \o grouped
       ELSE IF k # 0 THEN [grouped EXCEPT ![k].keywords = Append(@, "tag")]
       ELSE <<unit>> \o grouped

\* sort_keywords_and_children: if keyword_as
add_keyword_as(grouped, block_lineno, start_lineno) ==
    LET k == first_keywords_entry(grouped)
    IN IF grouped = <<>> THEN <<Unit(start_lineno, "keywords", <<"as">>, "")>>
       ELSE IF grouped[1].lineno > block_lineno + 1
            THEN <<Unit(block_lineno + 1, "keywords", <<"as">>, "")>> \o grouped
       ELSE IF grouped[1].lineno > start_lineno
            THEN <<Unit(start_lineno, "keywords", <<"as">>, "")>> \o grouped
       ELSE IF k # 0 THEN [grouped EXCEPT ![k].keywords = Append(@, "as")]
       ELSE <<Unit(start_lineno, "keywords", <<"as">>, "")>> \o grouped

\* sort_keywords_and_children: [contents_in_order (after the merge loops),
\* first_line, other_lines]
sort_keywords_and_children(node, immediate_block, ignore_children) ==
    LET children == IF ignore_children THEN <<>> ELSE node.children
        block_lineno == node.location
        start_lineno == IF immediate_block THEN block_lineno + 1 ELSE block_lineno
        merged == merge_contents(keywords_by_line(node.keyword), children_by_line(children))
        in_order == IF node.atl_transform # None
                    THEN insert_atl(merged, node.atl_transform)
                    ELSE merged
        g1 == assign_broken_lines(group_contents(in_order, <<>>, <<>>), 1, start_lineno)
        g2 == IF node.tag THEN add_keyword_tag(g1, block_lineno) ELSE g1
        g3 == IF node.variable THEN add_keyword_as(g2, block_lineno, start_lineno) ELSE g2
        g4 == IF immediate_block \/ g3 = <<>> \/ g3[1].lineno # block_lineno
              THEN <<Unit(block_lineno, "keywords", <<>>, "")>> \o g3
              ELSE g3
    IN [contents_in_order |-> merged, first_line |-> g4[1], other_lines |-> Tail(g4)]

\* SL2Decompiler.displayable_names.get(key): <<>> is None, else <<name, the
\* number of children ("0", "1" or "many")>>; the rows for the classes explored
displayable_names(displayable, style) ==
    CASE displayable = "Window" /\ style = "frame" -> <<"frame", "1">>
      [] displayable = "Window" /\ style = "window" -> <<"window", "1">>
      [] displayable = "MultiBox" /\ style = "vbox" -> <<"vbox", "many">>
      [] displayable = "Null" /\ style = "default" -> <<"null", "0">>
      [] OTHER -> <<>>

\* one entry of options.sl_custom_names
CustomName(cls, name, children) == [cls |-> cls, name |-> name, children |-> children]

\* options.sl_custom_names.get(name of the class): <<>> is None
sl_custom_names_get(registry, cls) ==
    IF \E e \in registry : e.cls = cls
    THEN LET e == CHOOSE e \in registry : e.cls = cls IN <<e.name, e.children>>
    ELSE <<>>

\* print_displayable up to (name, children) = nameAndChildren: the exception
\* raised ("none" when none is), the pair, and the lines given to print_debug.
\* The f-string of the first print_debug subscripts the result of the registry
\* lookup, None included.
resolve_name(node, registry) ==
    LET found == displayable_names(node.displayable, node.style)
    IN IF found = <<>> /\ registry # {}
       THEN LET custom == sl_custom_names_get(registry, node.displayable)
            IN IF custom = <<>>
               THEN [raised |-> "TypeError", nameAndChildren |-> <<>>, log |-> <<>>]
               ELSE [raised |-> "none", nameAndChildren |-> custom,
                     log |-> <<"replaced name">>]
       ELSE IF found = <<>>
            THEN [raised |-> "none", nameAndChildren |-> <<node.style, "many">>,
                  log |-> <<"user-defined displayable">>]
            ELSE [raised |-> "none", nameAndChildren |-> found, log |-> <<>>]

\* the test for the has statement without the test of has_block
has_check_nested(node, has_block, children) ==
    IF children = "1" /\ Len(node.children) = 1
       /\ node.children[1].displayable /\ node.children[1].haschildren
    THEN IF node.keyword # <<>> /\ node.keyword[Len(node.keyword)].linenumber = None
         THEN "AttributeError"
         ELSE IF /\ \/ node.keyword = <<>>
                    \/ node.children[1].location > node.keyword[Len(node.keyword)].linenumber
                 /\ \/ node.atl_transform = None
                    \/ node.children[1].location > node.atl_transform
              THEN "yes" ELSE "no"
    ELSE "no"

\* print_displayable, the test for the has statement: "yes", "no", or the
\* exception of reading .linenumber of a last keyword whose value is None
has_check(node, has_block, children) ==
    IF ~has_block /\ children = "1" /\ Len(node.children) = 1
       /\ node.children[1].displayable /\ node.children[1].haschildren
    THEN IF node.keyword # <<>> /\ node.keyword[Len(node.keyword)].linenumber = None
         THEN "AttributeError"
         ELSE IF /\ \/ node.keyword = <<>>
                    \/ node.children[1].location > node.keyword[Len(node.keyword)].linenumber
                 /\ \/ node.atl_transform = None
                    \/ node.children[1].location > node.atl_transform
              THEN "yes" ELSE "no"
    ELSE "no"

NoUnit == Unit(None, "none", <<>>, "")

\* the UI engine about to print `node`
SLStart(node, immediate_block, has_block) ==
    [pc |-> "start", node |-> node, immediate_block |-> immediate_block,
     has_block |-> has_block, name |-> "", children |-> "", log |-> <<>>,
     raised |-> "none", use_has |-> FALSE,
     contents_in_order |-> <<>>, first_line |-> NoUnit, other_lines |-> <<>>]

SLFrame == <<ast, options, stack, status, error, scopes, wk, fx>>

\* the plan of sort_keywords_and_children stored into sl
sl_sorted(s, plan) ==
    [s EXCEPT !.pc = "sorted", !.contents_in_order = plan.contents_in_order,
              !.first_line = plan.first_line, !.other_lines = plan.other_lines]

\* print_displayable up to self.write(name)
SLPrintDisplayable ==
    /\ sl.pc = "start" /\ sl.node.kind = "SLDisplayable"
    /\ LET r == resolve_name(sl.node, options.sl_custom_names)
       IN IF r.raised # "none"
          THEN /\ sl' = [sl EXCEPT !.pc = "error", !.raised = r.raised]
               /\ dc' = dc
          ELSE /\ sl' = [sl EXCEPT !.pc = "named", !.name = r.nameAndChildren[1],
                                   !.children = r.nameAndChildren[2], !.log = r.log]
               /\ dc' = write(indent(dc), "displayable", 0, r.nameAndChildren[1], 0)
    /\ UNCHANGED SLFrame

\* print_displayable from the test for has to the return of
\* sort_keywords_and_children
SLSortDisplayable ==
    /\ sl.pc = "named"
    /\ LET h == has_check(sl.node, sl.has_block, sl.children)
       IN IF h = "AttributeError"
          THEN sl' = [sl EXCEPT !.pc = "error", !.raised = h]
          ELSE sl' = [sl_sorted(sl, sort_keywords_and_children(sl.node, FALSE, h = "yes"))
                         EXCEPT !.use_has = (h = "yes")]
    /\ dc' = dc
    /\ UNCHANGED SLFrame

\* print_screen up to the return of sort_keywords_and_children
SLPrintScreen ==
    /\ sl.pc = "start" /\ sl.node.kind = "SLScreen"
    /\ sl' = sl_sorted(sl, sort_keywords_and_children(sl.node, FALSE, FALSE))
    /\ dc' = write(indent(dc), "screen", 0, "", 0)
    /\ UNCHANGED SLFrame

\* print_block up to the return of sort_keywords_and_children
SLPrintBlock ==
    /\ sl.pc = "start" /\ sl.node.kind = "SLBlock"
    /\ sl' = sl_sorted(sl, sort_keywords_and_children(sl.node, sl.immediate_block, FALSE))
    /\ dc' = dc
    /\ UNCHANGED SLFrame

\* print_keyword_or_child: the loop over item[2]
RECURSIVE write_keywords(_, _)
write_keywords(d, kws) ==
    IF kws = <<>> THEN d
    ELSE write_keywords(write(d, "keyword", 0, Head(kws), 0), Tail(kws))

\* print_keyword_or_child: [d: self afterwards, raised: the exception or "none"].
\* A child is printed by print_node as one statement on its line; the block of a
\* transform is one line long.
print_keyword_or_child(d, item, first_line, has_block) ==
    IF item.ty = "child"
    THEN [d |-> write(indent(base_advance_to_line(d, item.lineno)),
                      "child", 0, item.content, 0),
          raised |-> "none"]
    ELSE LET d1 == IF first_line THEN d
                   ELSE indent(base_advance_to_line(d, item.lineno))
             d2 == write_keywords(d1, item.keywords)
         IN IF item.ty = "keywords_atl"
            THEN IF has_block
                 THEN [d |-> d2, raised |-> "AssertionError"]
                 ELSE [d |-> write(write(d2, "at transform:", 0, "", 0),
                                   "atl block", 0, "", 1),
                       raised |-> "none"]
            ELSE LET d3 == IF item.ty = "keywords_broken"
                           THEN write(d2, "broken", 0, item.content, 0) ELSE d2
                 IN [d |-> IF first_line /\ has_block THEN write(d3, ":", 0, "", 0)
                           ELSE d3,
                     raised |-> "none"]

\* for line in other_lines: self.print_keyword_or_child(line)
RECURSIVE print_other_lines(_, _)
print_other_lines(d, lines) ==
    IF lines = <<>> THEN d
    ELSE print_other_lines(print_keyword_or_child(d, Head(lines), FALSE, FALSE).d,
                           Tail(lines))

\* print_displayable after sort_keywords_and_children, s being sl
print_displayable_lines(d, s) ==
    LET has_block == IF s.use_has THEN TRUE
                     ELSE IF s.has_block THEN FALSE
                     ELSE s.other_lines # <<>>
        first == print_keyword_or_child(d, s.first_line, TRUE, has_block)
    IN IF first.raised # "none" THEN first
       ELSE IF s.use_has
       THEN LET d1 == print_other_lines(increase_indent(first.d, 1), s.other_lines)
                d2 == write(indent(base_advance_to_line(d1, s.node.children[1].location)),
                            "has ", 0, "", 0)
                d3 == write(indent([d2 EXCEPT !.skip_indent_until_write = TRUE]),
                            "child", 0, s.node.children[1].name, 0)
            IN [d |-> increase_indent(d3, 0 - 1), raised |-> "none"]
       ELSE IF s.has_block
       THEN [d |-> print_other_lines(first.d, s.other_lines), raised |-> "none"]
       ELSE [d |-> increase_indent(
                       print_other_lines(increase_indent(first.d, 1), s.other_lines),
                       0 - 1),
             raised |-> "none"]

\* print_screen after sort_keywords_and_children
print_screen_lines(d, s) ==
    LET first == print_keyword_or_child(d, s.first_line, TRUE, s.other_lines # <<>>)
    IN IF first.raised # "none" \/ s.other_lines = <<>> THEN first
       ELSE [d |-> increase_indent(
                       print_other_lines(increase_indent(first.d, 1), s.other_lines),
                       0 - 1),
             raised |-> "none"]

\* print_block after sort_keywords_and_children
print_block_lines(d, s) ==
    LET has_block == s.immediate_block \/ s.other_lines # <<>>
        first == print_keyword_or_child(d, s.first_line, TRUE, has_block)
    IN IF first.raised # "none" THEN first
       ELSE IF s.other_lines # <<>>
       THEN [d |-> increase_indent(
                       print_other_lines(increase_indent(first.d, 1), s.other_lines),
                       0 - 1),
             raised |-> "none"]
       ELSE IF s.immediate_block
       THEN [d |-> increase_indent(
                       write(indent(increase_indent(first.d, 1)), "pass", 0, "", 0),
                       0 - 1),
             raised |-> "none"]
       ELSE first

\* print_displayable, print_screen and print_block from the first line of the
\* plan to their return
SLPrintLines ==
    /\ sl.pc = "sorted"
    /\ LET r == CASE sl.node.kind = "SLDisplayable" -> print_displayable_lines(dc, sl)
                  [] sl.node.kind = "SLScreen" -> print_screen_lines(dc, sl)
                  [] sl.node.kind = "SLBlock" -> print_block_lines(dc, sl)
       IN /\ dc' = r.d
          /\ sl' = IF r.raised # "none"
                   THEN [sl EXCEPT !.pc = "error", !.raised = r.raised]
                   ELSE [sl EXCEPT !.pc = "printed"]
    /\ UNCHANGED SLFrame

\* A SLIf or SLShowIf: entries is the list of (condition, block), condition
\* None for the else clause, block a SLBlock
SLIf(kind, entries) == [kind |-> kind, entries |-> entries]
SLEntry(condition, block) == [condition |-> condition, block |-> block]

\* A SLFor: variable "_sl2_i" is the tuple unpacking Ren'Py compiles into a
\* first child
SLFor(variable, children) ==
    [kind |-> "SLFor", variable |-> variable, children |-> children]

\* the UI engine about to print an if, showif or for statement
SLStartBranch(node) == [pc |-> "branch", node |-> node, k |-> 1, raised |-> "none"]

\* _print_if, one turn of the loop: the header of the entry, then
\* print_block(block, immediate_block=True)
SLPrintIf ==
    /\ sl.pc = "branch" /\ sl.node.kind \in {"SLIf", "SLShowIf"}
    /\ sl.k <= Len(sl.node.entries)
    /\ LET entry == sl.node.entries[sl.k]
           d1 == write(indent(base_advance_to_line(dc, entry.block.location)),
                       IF entry.condition = None THEN "else"
                       ELSE IF sl.k > 1 THEN "elif"
                       ELSE IF sl.node.kind = "SLIf" THEN "if" ELSE "showif",
                       0, "", 0)
           plan == sort_keywords_and_children(entry.block, TRUE, FALSE)
           r == print_block_lines(d1, [immediate_block |-> TRUE,
                                       first_line |-> plan.first_line,
                                       other_lines |-> plan.other_lines])
       IN /\ dc' = r.d
          /\ sl' = IF r.raised # "none"
                   THEN [sl EXCEPT !.pc = "error", !.raised = r.raised]
                   ELSE [sl EXCEPT !.k = @ + 1,
                                   !.pc = IF sl.k = Len(sl.node.entries)
                                          THEN "returned" ELSE "branch"]
    /\ UNCHANGED SLFrame

\* print_nodes(children, 1) of print_for: each child by print_node
RECURSIVE print_sl_children(_, _)
print_sl_children(d, children) ==
    IF children = <<>> THEN d
    ELSE print_sl_children(
             write(indent(base_advance_to_line(d, Head(children).location)),
                   "child", 0, Head(children).name, 0),
             Tail(children))

\* print_for
SLPrintFor ==
    /\ sl.pc = "branch" /\ sl.node.kind = "SLFor"
    /\ LET children == IF sl.node.variable = "_sl2_i" THEN Tail(sl.node.children)
                       ELSE sl.node.children
           d1 == write(indent(dc), "for", 0, "", 0)
       IN dc' = increase_indent(print_sl_children(increase_indent(d1, 1), children),
                                0 - 1)
    /\ sl' = [sl EXCEPT !.pc = "returned"]
    /\ UNCHANGED SLFrame

\* --------------------------------------------- the UI nodes explored

\* most keywords, and most children, of a UI node
MaxKeywords == 3
MaxChildren == 2

KeywordNames == <<"a", "b", "c", "d", "e">>
ChildNames == <<"x", "y", "z", "w">>
SLLines == {3, 4, 5}

RECURSIVE SLKeywordSeqs(_)
SLKeywordSeqs(n) ==
    IF n = 0 THEN {<<>>}
    ELSE {Append(ks, SLKeyword(KeywordNames[n], l)) :
             ks \in SLKeywordSeqs(n - 1), l \in SLLines \cup {None}}

RECURSIVE SLChildSeqs(_)
SLChildSeqs(n) ==
    IF n = 0 THEN {<<>>}
    ELSE {Append(cs, SLChild(ChildNames[n], l)) : cs \in SLChildSeqs(n - 1), l \in SLLines}

SLContents ==
    {<<ks, cs>> : ks \in UNION {SLKeywordSeqs(n) : n \in 0..MaxKeywords},
                  cs \in UNION {SLChildSeqs(n) : n \in 0..MaxChildren}}

\* a screen with or without tag, a block, a displayable with or without `as`
\* and a transform
SLShape(kind, tag, variable, atl, immediate) ==
    [kind |-> kind, tag |-> tag, variable |-> variable, atl |-> atl,
     immediate |-> immediate]

\* (a block is printed with immediate_block for an if branch, without for use)
SLShapes ==
    {SLShape("SLScreen", t, FALSE, None, FALSE) : t \in BOOLEAN}
    \cup {SLShape("SLBlock", FALSE, FALSE, None, i) : i \in BOOLEAN}
    \cup {SLShape("SLDisplayable", FALSE, v, a, FALSE) : v \in BOOLEAN, a \in {None, 3, 5}}

\* the nodes whose contents vary, and the displayables whose name varies
SLStarts ==
    {SLStart([SLNode(sh.kind, 2, kc[1], kc[2])
                 EXCEPT !.tag = sh.tag, !.variable = sh.variable,
                        !.atl_transform = sh.atl],
             sh.immediate, FALSE) : kc \in SLContents, sh \in SLShapes}
SLNamed ==
    {SLStart([SLNode("SLDisplayable", 2, <<>>, cs)
                 EXCEPT !.displayable = ds[1], !.style = ds[2]], FALSE, hb) :
        cs \in SLChildSeqs(0) \cup SLChildSeqs(1),
        ds \in {<<"Window", "frame">>, <<"MultiBox", "vbox">>, <<"Null", "default">>,
                <<"Custom", "fancy">>},
        hb \in BOOLEAN}

\* displayables of one child, which is or is not a displayable and has or has
\* not children, printed as a statement and as the target of has
SLHasTargets ==
    {SLStart([SLNode("SLDisplayable", 2, ks,
                     <<[SLChild("x", l) EXCEPT !.displayable = cd[1],
                                               !.haschildren = cd[2]]>>)
                 EXCEPT !.atl_transform = a],
             FALSE, hb) :
        ks \in SLKeywordSeqs(0) \cup SLKeywordSeqs(1), l \in SLLines,
        a \in {None, 4}, cd \in BOOLEAN \X BOOLEAN, hb \in BOOLEAN}

\* the block of an if or showif entry on its line: empty, one child, one keyword
SLBranchBlocks(line) ==
    {SLNode("SLBlock", line, <<>>, <<>>),
     SLNode("SLBlock", line, <<>>, <<SLChild("x", line + 1)>>),
     SLNode("SLBlock", line, <<SLKeyword("a", line + 1)>>, <<>>)}

\* if and showif statements of one and two entries, for statements with and
\* without children
SLBranches ==
    {SLStartBranch(SLIf(k, <<SLEntry(1, b)>>)) :
        k \in {"SLIf", "SLShowIf"}, b \in SLBranchBlocks(3)}
    \cup {SLStartBranch(SLIf(k, <<SLEntry(1, b1), SLEntry(c, b2)>>)) :
             k \in {"SLIf", "SLShowIf"}, b1 \in SLBranchBlocks(3),
             c \in {None, 1}, b2 \in SLBranchBlocks(5)}
    \cup {SLStartBranch(SLFor("i", cs)) : cs \in UNION {SLChildSeqs(n) : n \in 0..MaxChildren}}
    \cup {SLStartBranch(SLFor("_sl2_i", cs)) :
             cs \in UNION {SLChildSeqs(n) : n \in 1..MaxChildren}}

Registries ==
    {{}, {CustomName("Custom", "custom", "1")}, {CustomName("Other", "other", "many")}}

\* -------------------------------------------- the work list (unrpyc.py)

\* unrpyc.Context after __init__
NewContext == [state |-> "error", error |-> FALSE]

\* renpycompat.pickle_loads(buffer: bytes): the object pickled into the buffer;
\* anything that is not a buffer makes the unpickler raise
pickle_loads(buffer) ==
    IF buffer = "bytes" THEN [raised |-> "none", value |-> "object"]
    ELSE [raised |-> "TypeError", value |-> buffer]

\* decompile_rpyc on one file, by what the file is: the Context afterwards and
\* whether an exception leaves the call
decompile_rpyc(file, context) ==
    CASE file = "good" -> [context |-> [context EXCEPT !.state = "ok"], raised |-> FALSE]
      [] file = "exists" -> [context |-> [context EXCEPT !.state = "skip"], raised |-> FALSE]
      [] file = "bad_header" ->
            [context |-> [context EXCEPT !.state = "bad_header"], raised |-> TRUE]
      [] file = "broken" -> [context |-> context, raised |-> TRUE]

\* worker_common((args, filename)): the exception that leaves it ("none" when it
\* returns), args.translator afterwards, and the Context returned
worker_common(translator, file) ==
    LET loaded == IF translator # "None" THEN pickle_loads(translator)
                  ELSE [raised |-> "none", value |-> translator]
        r == decompile_rpyc(file, NewContext)
    IN IF loaded.raised # "none"
       THEN [raised |-> loaded.raised, translator |-> translator, context |-> NewContext]
       ELSE [raised |-> "none", translator |-> loaded.value,
             context |-> IF r.raised THEN [r.context EXCEPT !.error = TRUE]
                         ELSE r.context]

\* no Context yet for a task of the pool
NoContext == [state |-> "pending", error |-> FALSE]

\* run_workers(worker_common, args, worklist, parallelism) about to start:
\* translator is args.translator of the calling process
WkStart(files, parallelism, translator) ==
    [pc |-> "run", files |-> files, parallelism |-> parallelism,
     translator |-> translator,
     tasks |-> [i \in 1..Len(files) |-> NoContext],
     results |-> <<>>, raised |-> "none"]

WkFrame == <<ast, options, dc, stack, status, error, scopes, sl, fx>>

\* run_workers, parallelism <= 1: one turn of `for result in map(worker, ...)`;
\* every call gets the same args object
WorkerSequential ==
    /\ wk.pc = "run" /\ wk.parallelism <= 1
    /\ Len(wk.results) < Len(wk.files)
    /\ LET r == worker_common(wk.translator, wk.files[Len(wk.results) + 1])
       IN IF r.raised # "none"
          THEN wk' = [wk EXCEPT !.pc = "raised", !.raised = r.raised]
          ELSE wk' = [wk EXCEPT !.translator = r.translator,
                                !.results = Append(@, r.context)]
    /\ UNCHANGED WkFrame

\* run_workers, parallelism > 1: a process of the pool runs task i on its own
\* unpickled copy of (args, filename); the tasks are taken in input order, so
\* the ones still running before it are fewer than `parallelism`
WorkerPool ==
    /\ wk.pc = "run" /\ wk.parallelism > 1
    /\ \E i \in 1..Len(wk.files) :
          /\ wk.tasks[i] = NoContext
          /\ \A j \in 1..(i - 1) : wk.tasks[j] # NoContext \/ i - j < wk.parallelism
          /\ LET r == worker_common(wk.translator, wk.files[i])
             IN IF r.raised # "none"
                THEN wk' = [wk EXCEPT !.pc = "raised", !.raised = r.raised]
                ELSE wk' = [wk EXCEPT !.tasks[i] = r.context]
    /\ UNCHANGED WkFrame

\* run_workers, parallelism > 1: pool.imap yields the next result in input order
WorkerCollect ==
    /\ wk.pc = "run" /\ wk.parallelism > 1
    /\ Len(wk.results) < Len(wk.files)
    /\ wk.tasks[Len(wk.results) + 1] # NoContext
    /\ wk' = [wk EXCEPT !.results = Append(@, wk.tasks[Len(wk.results) + 1])]
    /\ UNCHANGED WkFrame

\* run_workers: return results
WorkersReturn ==
    /\ wk.pc = "run"
    /\ Len(wk.results) = Len(wk.files)
    /\ wk' = [wk EXCEPT !.pc = "done"]
    /\ UNCHANGED WkFrame

\* most files of a work list, and most processes asked for
MaxFiles == 3
MaxProcesses == 2

FileKinds == {"good", "exists", "bad_header", "broken"}

RECURSIVE WorkLists(_)
WorkLists(n) ==
    IF n = 0 THEN {<<>>}
    ELSE {Append(fs, f) : fs \in WorkLists(n - 1), f \in FileKinds}

\* ------------------------------------------------------------ specification

\* ------------------------------------------- the normalisation pass

\* longest top-level statement list handed to the normalisation pass
MaxFix == 2

\* A node as unpickled: present says whether its version-dependent fields exist
\* (hasattr); block is the attribute `block`, branches the blocks held by
\* Menu.items or If.entries.
FxNode(kind, present, block, branches) ==
    [kind |-> kind, present |-> present, block |-> block, branches |-> branches]

\* the node types fix_ast_for_renpy_84 has a branch for
FixKinds ==
    {"Label", "Scene", "Show", "Hide", "Say", "Menu", "With", "Jump", "Call",
     "Return", "If", "While", "Init", "Image", "Transform", "Python",
     "UserStatement"}

\* fix_ast_for_renpy_84 (the definition in force, the second of the file): the
\* defaults by node type, then the recursion into node.block only
RECURSIVE fix_ast_for_renpy_84(_)
fix_ast_for_renpy_84(ast_nodes) ==
    [i \in 1..Len(ast_nodes) |->
        LET node == ast_nodes[i]
            fixed == IF node.kind \in FixKinds
                     THEN [node EXCEPT !.present = TRUE] ELSE node
        IN IF fixed.block # <<>>
           THEN [fixed EXCEPT !.block = fix_ast_for_renpy_84(fixed.block)]
           ELSE fixed]

\* the handlers that open with `if not hasattr(ast, ...): ast.... = default`
PrintDefaultKinds == {"Show", "Scene", "With", "Label", "Jump", "Return", "Say"}

RECURSIVE FxConcat(_)
FxConcat(ss) == IF ss = <<>> THEN <<>> ELSE Head(ss) \o FxConcat(Tail(ss))

\* the nodes in the order print_nodes reaches them: a node, then its block
\* (print_label, print_while, print_init), then the blocks of its items or
\* entries (print_menu_item, print_if); nested is whether the node lies in a
\* block at all, inbranch whether some block on its path is an item's or an
\* entry's
RECURSIVE FxVisit(_, _, _)
FxVisit(nodes, nested, inbranch) ==
    FxConcat([i \in 1..Len(nodes) |->
        <<[kind |-> nodes[i].kind, present |-> nodes[i].present,
           nested |-> nested, inbranch |-> inbranch]>>
        \o FxVisit(nodes[i].block, TRUE, inbranch)
        \o FxConcat([b \in 1..Len(nodes[i].branches) |->
                        FxVisit(nodes[i].branches[b], TRUE, TRUE)])])

\* read_ast_from_file about to run the pass on the unpickled statement list
FxStart(tree) ==
    [pc |-> "read", tree |-> tree, orig |-> FxVisit(tree, FALSE, FALSE),
     nodes |-> <<>>, k |-> 1, added |-> {}]

FxFrame == <<ast, options, dc, stack, status, error, scopes, sl, wk>>

\* read_ast_from_file: stmts = fix_ast_for_renpy_84(stmts)
FxReadAst ==
    /\ fx.pc = "read"
    /\ LET stmts == fix_ast_for_renpy_84(fx.tree)
       IN fx' = [fx EXCEPT !.pc = "fixed", !.tree = stmts,
                           !.nodes = FxVisit(stmts, FALSE, FALSE)]
    /\ UNCHANGED FxFrame

\* the handler of the next node reached by the dump: its compatibility
\* prologue sets the fields that are still absent
FxPrintNode ==
    /\ fx.pc = "fixed"
    /\ fx.k <= Len(fx.nodes)
    /\ LET n == fx.nodes[fx.k]
       IN IF ~n.present /\ n.kind \in PrintDefaultKinds
          THEN fx' = [fx EXCEPT !.nodes[fx.k].present = TRUE,
                                !.added = fx.added \cup {fx.k},
                                !.k = fx.k + 1]
          ELSE fx' = [fx EXCEPT !.k = fx.k + 1]
    /\ UNCHANGED FxFrame

\* the dump returns
FxPrintDone ==
    /\ fx.pc = "fixed"
    /\ fx.k > Len(fx.nodes)
    /\ fx' = [fx EXCEPT !.pc = "done"]
    /\ UNCHANGED FxFrame

\* the statements whose fields may be absent, and the statements that hold one
\* of them in a block
FxLeaves == {FxNode(k, p, <<>>, <<>>) : k \in {"Say", "Jump"}, p \in BOOLEAN}
FxHolders ==
    {FxNode(k, TRUE, <<l>>, <<>>) : k \in {"Label", "While", "Init"}, l \in FxLeaves}
    \cup {FxNode(k, TRUE, <<>>, <<<<l>>>>) : k \in {"Menu", "If"}, l \in FxLeaves}
FxTrees ==
    {t \in UNION {[1..n -> FxLeaves \cup FxHolders] : n \in 1..MaxFix} : TRUE}


SLIdle == [pc |-> "idle"]
WkIdle == [pc |-> "idle"]
FxIdle == [pc |-> "idle"]

\* decompiler.Options: sl_custom_names is the set of registered entries, the
\* empty set standing for None and for an empty dict alike
Options(init_offset, sl_custom_names) ==
    [init_offset |-> init_offset, sl_custom_names |-> sl_custom_names]

Init ==
    /\ \/ /\ ast \in {NumBlock(t, 1) : t \in StmtTrees \cup MenuTrees \cup BranchTrees
                                         \cup LabelMenuTrees \cup CallTrees
                                         \cup DeferredTrees \cup TranslateTrees
                                         \cup BehindTrees \cup NestedPlainTrees
                                         \cup PairedTwiceTrees}
          /\ options = Options(TRUE, {})
       \/ /\ ast \in {NumBlock(t, 1) : t \in InitTrees \cup VotingMenuTrees}
          /\ options \in {Options(b, {}) : b \in BOOLEAN}
    /\ dc = NewDecompiler
    /\ stack = <<>>
    /\ status = "new"
    /\ error = NoError
    /\ scopes = <<>>
    /\ sl = SLIdle
    /\ wk = WkIdle
    /\ fx = FxIdle

Next ==
    \/ DumpBegin
    \/ DumpEnd
    \/ EndNodes
    \/ PrintShow
    \/ PrintScene
    \/ PrintHide
    \/ PrintWith
    \/ PrintReturn
    \/ PrintJump
    \/ PrintLabel
    \/ LabelEnd
    \/ PrintSay
    \/ PrintMenu
    \/ MenuItem
    \/ MenuItemAfter
    \/ MenuEnd
    \/ PrintInit
    \/ InitEnd
    \/ PrintDefine
    \/ PrintDefault
    \/ PrintTransform
    \/ PrintImage
    \/ PrintStyle
    \/ PrintScreen
    \/ PrintTestcase
    \/ PrintTranslateString
    \/ PrintWhile
    \/ PrintIf
    \/ IfEntry
    \/ IfEnd
    \/ PrintPass
    \/ PrintCall
    \/ PrintTranslateBlock
    \/ TranslateBlockEnd

Spec == Init /\ [][Next]_vars

\* The UI engine on one node: name resolution and the render plan
InitSL2 ==
    /\ \/ sl \in SLStarts \cup SLBranches \cup SLHasTargets /\ options = Options(TRUE, {})
       \/ sl \in SLNamed /\ options \in {Options(TRUE, r) : r \in Registries}
    /\ dc = [NewDecompiler EXCEPT !.linenumber = 2, !.skip_indent_until_write = TRUE]
    /\ ast = <<>>
    /\ stack = <<>>
    /\ status = "sl2"
    /\ error = NoError
    /\ scopes = <<>>
    /\ wk = WkIdle
    /\ fx = FxIdle

NextSL2 ==
    \/ SLPrintDisplayable
    \/ SLSortDisplayable
    \/ SLPrintScreen
    \/ SLPrintBlock
    \/ SLPrintLines
    \/ SLPrintIf
    \/ SLPrintFor

SpecSL2 == InitSL2 /\ [][NextSL2]_vars

\* run_workers(worker_common, ...) as main calls it: a work list that is not
\* empty, at most one process per file, args.translator None or the pickled
\* Translator
InitWorkers ==
    /\ wk \in {WkStart(fs, p, t) :
                  fs \in UNION {WorkLists(n) : n \in 1..MaxFiles},
                  p \in 1..MaxProcesses, t \in {"None", "bytes"}}
    /\ wk.parallelism <= Len(wk.files)
    /\ ast = <<>>
    /\ options = Options(TRUE, {})
    /\ dc = NewDecompiler
    /\ stack = <<>>
    /\ status = "workers"
    /\ error = NoError
    /\ scopes = <<>>
    /\ sl = SLIdle
    /\ fx = FxIdle

NextWorkers ==
    \/ WorkerSequential
    \/ WorkerPool
    \/ WorkerCollect
    \/ WorkersReturn

SpecWorkers == InitWorkers /\ [][NextWorkers]_vars

\* read_ast_from_file on one unpickled tree, then the dump of that tree
InitFix ==
    /\ fx \in {FxStart(t) : t \in FxTrees}
    /\ ast = <<>>
    /\ options = Options(TRUE, {})
    /\ dc = NewDecompiler
    /\ stack = <<>>
    /\ status = "fix"
    /\ error = NoError
    /\ scopes = <<>>
    /\ sl = SLIdle
    /\ wk = WkIdle

NextFix ==
    \/ FxReadAst
    \/ FxPrintNode
    \/ FxPrintDone

SpecFix == InitFix /\ [][NextFix]_vars

\* ============================================================== properties

\* the real output file of dump
Out == dc.files[1]

Serials(text) == {TSerial(text[i]) : i \in 1..Len(text)}

\* the tokens of `text` stand in the output once, in one piece, right after the
\* token with serial number prev (prev = 0: at the very start)
OccursOnceAfter(text, prev) ==
    /\ \A i \in 1..Len(text) :
           Cardinality({p \in 1..Len(Out) : TSerial(Out[p]) = TSerial(text[i])}) = 1
    /\ \E p \in 0..(Len(Out) - Len(text)) :
           /\ IF prev = 0 THEN p = 0 ELSE p > 0 /\ TSerial(Out[p]) = prev
           /\ \A i \in 1..Len(text) : Out[p + i] = text[i]

NowhereInOutput(text) == Serials(text) \cap Serials(Out) = {}

\* no scope around scope i was aborted
Survives(i) == \A j \in scopes[i].enclosing : scopes[j].outcome = "commit"

\* ---------------------------------------------------------------------- C1
\* C1 as stated: once dump has finished, the text written inside an aborted
\* scope is nowhere in the output, and the text written inside a committed
\* scope is in the output exactly once, where the scope was opened -- for every
\* scope, nested menus and menus in a label body included.
C1_AsStated ==
    status = "done" =>
        \A i \in 1..Len(scopes) :
            /\ scopes[i].outcome = "rollback" => NowhereInOutput(scopes[i].text)
            /\ scopes[i].outcome = "commit" =>
                   OccursOnceAfter(scopes[i].text, scopes[i].prev)

\* C1 (amended): the text of an aborted scope is nowhere in the output; the text
\* of a committed scope is in the output exactly once, right after what the
\* sink held when the scope was opened, unless a scope around it was aborted:
\* then it is discarded with that scope's buffer.
C1_TxIsolation ==
    status = "done" =>
        \A i \in 1..Len(scopes) :
            IF scopes[i].outcome = "commit" /\ Survives(i)
            THEN OccursOnceAfter(scopes[i].text, scopes[i].prev)
            ELSE NowhereInOutput(scopes[i].text)

\* a finished dump with an aborted scope, a committed scope of a menu in a label
\* body that reached the output, and a committed scope inside an aborted one
C1_Witness ==
    /\ status = "done"
    /\ \E i, j, k \in 1..Len(scopes) :
           /\ scopes[i].outcome = "rollback"
           /\ scopes[j].outcome = "commit" /\ Survives(j) /\ scopes[j].parent # 1
           /\ scopes[k].outcome = "commit" /\ ~Survives(k)

\* the sink being written, and the tokens of kind k in a text
Active == dc.files[dc.out_file]
Positions(text, k) == {p \in 1..Len(text) : TKind(text[p]) = k}

\* ---------------------------------------------------------------------- C2
\* the three nodes just printed by the innermost loop are With(paired = T), a
\* Show / Scene / Hide, and With(expr = T) (its own paired not set)
C2_JustPrinted ==
    /\ Running /\ Top.f = "nodes" /\ Index >= 4
    /\ Block[Index - 3].kind = "With" /\ Block[Index - 3].paired # None
    /\ Block[Index - 2].kind \in {"Show", "Scene", "Hide"}
    /\ Block[Index - 1].kind = "With" /\ Block[Index - 1].paired = None
    /\ Block[Index - 1].expr = Block[Index - 3].paired

\* C2: after With(paired = T), Show / Scene / Hide, With(expr = T) the text
\* written is the statement followed by one " with T" of that statement, the
\* two With nodes wrote nothing, and paired_with is False again.
C2_PairedWith ==
    C2_JustPrinted =>
        LET sh == Block[Index - 2]
            word == CASE sh.kind = "Show" -> "show"
                      [] sh.kind = "Scene" -> "scene"
                      [] sh.kind = "Hide" -> "hide"
            n == Len(Active)
        IN /\ dc.paired_with = PW_False
           /\ n >= 2
           /\ TKind(Active[n - 1]) = word /\ TId(Active[n - 1]) = sh.id
           /\ TKind(Active[n]) = "with" /\ TId(Active[n]) = sh.id
           /\ TArg(Active[n]) = Block[Index - 3].paired
           /\ \A f \in 1..Len(dc.files) : \A p \in Positions(dc.files[f], "with") :
                  TId(dc.files[f][p]) \in {Block[Index - 3].id, sh.id, Block[Index - 1].id}
                  => f = dc.out_file /\ p = n

\* the sequence has been printed for a scene statement
C2_Witness == C2_JustPrinted /\ Block[Index - 2].kind = "Scene"

\* ---------------------------------------------------------------------- C3
\* the node two positions ahead is the matching With
C3_Matched ==
    /\ Index + 2 <= Len(Block)
    /\ Block[Index + 2].kind = "With"
    /\ Block[Index + 2].expr = Cur.paired

\* no text of a node after node id, and no trailer, in any sink of d
C3_NothingAfter(d, id) ==
    \A f \in 1..Len(d.files) : \A p \in 1..Len(d.files[f]) :
        TId(d.files[f][p]) <= id /\ TKind(d.files[f][p]) # "trailer"

\* C3: printing a With with paired set whose node two positions ahead is
\* absent, not a With, or a With with another expression makes dump end with an
\* exception raised at that With; nothing of a later node is written, and
\* nothing happens after the exception.
C3_UnmatchedWithFatal ==
    [][/\ status = "error" => FALSE
       /\ (AtKind("With") /\ Cur.paired # None /\ ~C3_Matched) =>
              /\ status' = "error"
              /\ error'.node = Cur.id
              /\ error'.kind \in {"IndexError", "Exception"}
              /\ C3_NothingAfter(dc', Cur.id)]_vars

\* dump ended at a With whose node two positions ahead does not match, with
\* nodes after it left unprinted
C3_Witness ==
    /\ status = "error" /\ error.kind = "Exception"
    /\ error.node < BlockSize(ast)
    /\ C3_NothingAfter(dc, error.node)

\* ---------------------------------------------------------------------- C4
\* the Return about to be printed is the one Ren'Py appends: no expression, in
\* the outermost block, last but not first, on the line of the node before it
C4_Appended ==
    /\ Cur.expression = None
    /\ Len(stack) = 1
    /\ Index = Len(Block)
    /\ Index > 1
    /\ Cur.linenumber = Block[Index - 1].linenumber

\* C4: a Return node is left out of the output when it has no expression, has no
\* parent, is the last but not the first node of its block and is on the same
\* line as the node before it; every other Return node is written as a return
\* statement.
C4_ImplicitReturn ==
    [][AtKind("Return") =>
          IF C4_Appended THEN dc' = dc
          ELSE /\ dc'.out_file = dc.out_file
               /\ \E p \in (Len(Active) + 1)..Len(dc'.files[dc.out_file]) :
                      /\ TKind(dc'.files[dc.out_file][p]) = "return"
                      /\ TId(dc'.files[dc.out_file][p]) = Cur.id]_vars

\* a finished dump whose last Return was left out and whose first was written
C4_Witness ==
    /\ status = "done"
    /\ Len(ast) > 1 /\ ast[Len(ast)].kind = "Return"
    /\ \A p \in Positions(Out, "return") : TId(Out[p]) # ast[Len(ast)].id
    /\ Positions(Out, "return") # {}

\* the places of the tokens of kind k written by node id in the output
Places(k, id) == {p \in Positions(Out, k) : TId(Out[p]) = id}

\* ---------------------------------------------------------------------- C5
\* the scopes of aborted placement attempts that no enclosing abort undid
C5_Aborted == {i \in 1..Len(scopes) : scopes[i].outcome = "rollback" /\ Survives(i)}

C6_Voted == set_best_init_offset(NewDecompiler, ast).blank_line_queue

\* the top-level wrappers printed on one line with the statement of node id
C6_Wrappers(id) ==
    {i \in 1..Len(ast) :
        /\ ast[i].kind = "Init" /\ Len(ast[i].block) = 1
        /\ ast[i].block[1].id = id
        /\ ~should_come_before(ast[i], ast[i].block[1])}

\* the annotation of a priority relative to a baseline: 0 stands for none
C6_Annotation(priority, baseline) ==
    IF priority = baseline THEN 0 ELSE priority - baseline

C6_InForce(p) ==
    IF \E q \in Positions(Out, "init offset") : q < p
    THEN TArg(Out[CHOOSE q \in Positions(Out, "init offset") : q < p])
    ELSE 0

C7_NeedInit ==
    {"Define", "Default", "Transform", "Image", "Style", "Screen", "Testcase",
     "TranslateString"}

\* the block, printed with in_init as given, holds a node of such a kind
\* outside every init block and outside every label body (it may be inside the
\* block of a menu item, of an if entry, of a while statement or of a translate
\* block that does not count as an init block)
RECURSIVE C7_Flags(_, _)
C7_Flags(blk, in_init) ==
    \E i \in 1..Len(blk) :
        \/ ~in_init /\ blk[i].kind \in C7_NeedInit
        \/ /\ blk[i].kind \in {"Menu", "If"}
           /\ \E j \in 1..Len(blk[i].items) : C7_Flags(blk[i].items[j].block, in_init)
        \/ blk[i].kind = "While" /\ C7_Flags(blk[i].block, in_init)
        \/ /\ blk[i].kind = "TranslateBlock"
           /\ C7_Flags(blk[i].block,
                       in_init \/ (/\ Len(blk[i].block) = 1
                                   /\ blk[i].block[1].kind \in {"Python", "Style"}))

C7_Unwrapped(blk) == C7_Flags(blk, FALSE)

C7_Ended == status = "done" \/ (status = "error" /\ error.kind = "AssertionError")

RECURSIVE C8_Project(_, _)
C8_Project(entries, types) ==
    IF entries = <<>> THEN <<>>
    ELSE (IF Head(entries).ty \in types THEN <<Head(entries).content>> ELSE <<>>)
         \o C8_Project(Tail(entries), types)

C8_NonDecreasing(lines) == \A i \in 1..(Len(lines) - 1) : lines[i] <= lines[i + 1]

\* the child list given to the merge: empty when the child goes into `has`
C8_Children == IF sl.use_has THEN <<>> ELSE sl.node.children

C8_KeywordLines == [i \in 1..Len(sl.node.keyword) |-> sl.node.keyword[i].linenumber]
C8_ChildLines == [i \in 1..Len(C8_Children) |-> C8_Children[i].location]

\* the node of the example: keywords on lines 3, 3, 5 and one child on line 4
C8_Example ==
    /\ C8_KeywordLines = <<3, 3, 5>> /\ C8_ChildLines = <<4>>
    /\ ~sl.node.tag /\ ~sl.node.variable /\ sl.node.atl_transform = None

\* C8: the merged sequence holds every keyword and every child exactly once, the
\* keywords in their original order and the children in theirs; when every
\* keyword has a line number and both lists are in non-decreasing line order,
\* so are the merged sequence and the plan made of it; keywords on lines
\* 3, 3, 5 and a child on line 4 give the plan keywords(3: both), child(4),
\* keywords(5).
C8_Merge ==
    sl.pc \in {"sorted", "printed"} =>
        LET m == sl.contents_in_order
            plan == <<sl.first_line>> \o sl.other_lines
        IN /\ Len(m) = Len(sl.node.keyword) + Len(C8_Children)
           /\ C8_Project(m, {"keyword", "broken"})
                  = [i \in 1..Len(sl.node.keyword) |-> sl.node.keyword[i].name]
           /\ C8_Project(m, {"child"})
                  = [i \in 1..Len(C8_Children) |-> C8_Children[i].name]
           /\ (/\ \A i \in 1..Len(C8_KeywordLines) : C8_KeywordLines[i] # None
               /\ C8_NonDecreasing(C8_KeywordLines)
               /\ C8_NonDecreasing(C8_ChildLines))
              => /\ C8_NonDecreasing([i \in 1..Len(m) |-> m[i].lineno])
                 /\ C8_NonDecreasing([i \in 1..Len(plan) |-> plan[i].lineno])
           /\ C8_Example =>
                  /\ sl.first_line = Unit(2, "keywords", <<>>, "")
                  /\ sl.other_lines = <<Unit(3, "keywords", <<"a", "b">>, ""),
                                        Unit(4, "child", <<>>, "x"),
                                        Unit(5, "keywords", <<"c">>, "")>>

\* the plan of the example has been made for a displayable
C8_Witness ==
    sl.pc = "sorted" /\ sl.node.kind = "SLDisplayable" /\ C8_Example

\* ---------------------------------------------------------------------- C9
\* the node is a displayable whose (class, style) pair is not in the table, and
\* its name resolution has run
C9_Unknown ==
    /\ sl.node.kind = "SLDisplayable" /\ sl.pc # "start"
    /\ displayable_names(sl.node.displayable, sl.node.style) = <<>>

\* C9 as stated: name resolution of such a displayable never raises; the entry
\* of the registry is used when there is one, and in every other case the
\* style tag is the name, the class is 'many' and one diagnostic line is given.
C9_AsStated ==
    C9_Unknown =>
        /\ sl.raised # "TypeError"
        /\ IF \E e \in options.sl_custom_names : e.cls = sl.node.displayable
           THEN \E e \in options.sl_custom_names :
                   e.cls = sl.node.displayable /\ sl.name = e.name
                   /\ sl.children = e.children
           ELSE sl.name = sl.node.style /\ sl.children = "many" /\ Len(sl.log) = 1

\* a registry was supplied, it has no entry for the class of the displayable,
\* and the name resolution raised
C9_Witness ==
    /\ C9_Unknown /\ sl.raised = "TypeError"
    /\ options.sl_custom_names # {}
    /\ \A e \in options.sl_custom_names : e.cls # sl.node.displayable

\* --------------------------------------------------------------------- C10
\* the state decompiling a file leaves in its Context, whatever else is
\* decompiled before or beside it
C10_StateOf(file) ==
    CASE file = "good" -> "ok"
      [] file = "exists" -> "skip"
      [] file = "bad_header" -> "bad_header"
      [] file = "broken" -> "error"

\* C10 as stated: run_workers never stops before the end of the work list, the
\* Contexts it has collected are those of the files in input order, an
\* exception of one file is recorded in the Context of that file, and the
\* state of every file is the same for any parallelism, with or without a
\* translator.
C10_AsStated ==
    /\ wk.pc # "raised"
    /\ Len(wk.results) <= Len(wk.files)
    /\ \A i \in 1..Len(wk.results) :
           /\ wk.results[i].state = C10_StateOf(wk.files[i])
           /\ wk.results[i].error = (wk.files[i] \in {"bad_header", "broken"})
    /\ wk.pc = "done" => Len(wk.results) = Len(wk.files)

\* sequential mode with a translator: the first file is done, the call for the
\* second raised and run_workers returns nothing
C10_Witness ==
    /\ wk.pc = "raised" /\ wk.parallelism = 1
    /\ Len(wk.results) = 1 /\ Len(wk.files) > 1

\* ---------------------------------------------------------------------- C11
\* the positions, in visiting order, of the nodes that came without their fields
C11_Unfixed == {i \in 1..Len(fx.orig) : ~fx.orig[i].present}

\* C11: after the normalisation pass every node of the tree, also one in a
\* label, init or while block, in an if branch or in a menu item block, has its
\* version-dependent fields, and no handler adds a field while printing.
C11_AsStated ==
    fx.pc \in {"fixed", "done"} =>
        /\ \A i \in 1..Len(fx.nodes) : fx.nodes[i].present
        /\ fx.added = {}

\* a node inside a label, init or while block came without its fields and has
\* them after the pass
C11_Witness ==
    /\ fx.pc = "fixed"
    /\ \E i \in C11_Unfixed :
           fx.orig[i].nested /\ ~fx.orig[i].inbranch /\ fx.nodes[i].present
           /\ i \notin fx.added

\* ---------------------------------------------------------------------- C12
\* the places in the output of the headers (while, if, elif, else) whose block
\* is empty: the top-level while statements and the entries of the top-level
\* if statements
C12_EmptyHeaders ==
    {p \in 1..Len(Out) :
        /\ TKind(Out[p]) \in {"while", "if", "elif", "else"}
        /\ \E i \in 1..Len(ast) :
              \/ ast[i].kind = "While" /\ ast[i].id = TId(Out[p])
                 /\ ast[i].block = <<>>
              \/ /\ ast[i].kind = "If"
                 /\ \E k \in 1..Len(ast[i].items) :
                       /\ ast[i].items[k].id = TId(Out[p])
                       /\ ast[i].items[k].block = <<>>}

\* C12: a required block without statements (here an if, elif or else branch
\* or a while body of the statement engine) is printed with a synthesized pass
\* statement as its body, and the dump goes on without error.
C12_AsStated ==
    status = "done" =>
        \A p \in C12_EmptyHeaders :
            \E q \in (p + 1)..Len(Out) :
                /\ TKind(Out[q]) = "pass"
                /\ \A r \in (p + 1)..(q - 1) : TKind(Out[r]) \in {"indent", "blank"}

\* the dump of a tree with an empty while body or an empty if branch has ended
C12_Witness == status = "done" /\ C12_EmptyHeaders # {}

\* ---------------------------------------------------------------------- C13
\* the target lines tried at every cursor the dump reaches
C13_Targets == 1..12

\* one advance_to_line call from the present cursor, for every target
C13_Advance ==
    \A t \in C13_Targets :
        LET d2 == advance_to_line(dc, t)
        IN /\ d2.linenumber >= dc.linenumber
           /\ t <= dc.linenumber =>
                  /\ d2.last_lines_behind > 0 \/ dc.skip_indent_until_write
                  /\ d2.most_lines_behind >= d2.last_lines_behind
                  /\ d2 = [dc EXCEPT !.last_lines_behind = d2.last_lines_behind,
                                     !.most_lines_behind = d2.most_lines_behind]
           /\ t > dc.linenumber => d2.last_lines_behind = 0

\* the step of print_menu that aborts a speculative scope
C13_Abort ==
    /\ Running /\ Top.f = "menu" /\ Top.phase = "after" /\ Top.state # <<>>
    /\ menu_attempt_failed(dc, Top.state[1])

\* C13: the current line number never decreases but for the abort of a
\* speculative scope; an advance to a target at or behind the current line
\* changes nothing but last_lines_behind and most_lines_behind, and an advance
\* to a target ahead of it leaves last_lines_behind at 0.
C13_LineMonotonic ==
    [][/\ C13_Advance /\ C13_Advance'
       /\ dc'.linenumber < dc.linenumber => C13_Abort]_vars

\* a node was printed whose line lies behind the current line
C13_Witness ==
    /\ status = "run" /\ dc.last_lines_behind > 0 /\ dc.linenumber > 1
    /\ scopes = <<>>

\* ---------------------------------------------------------------------- C14
\* the cursor fields of the claim
C14_Fields ==
    {"out_file", "linenumber", "indent_level", "skip_indent_until_write",
     "paired_with", "say_inside_menu", "label_inside_menu", "in_init",
     "missing_init", "most_lines_behind", "last_lines_behind", "init_offset"}

\* C14: when print_menu aborts an attempt, rollback_state gives every cursor
\* field (init_offset included) the value it had when save_state was called,
\* and the active sink holds what it held then.
C14_RollbackRestores ==
    C13_Abort =>
        LET r == rollback_state(dc, Top.state[1])
            pre == scopes[Top.scope].saved
        IN /\ \A f \in C14_Fields : r[f] = pre[f]
           /\ r.blank_line_queue = pre.blank_line_queue
           /\ r.files[r.out_file] = pre.files[pre.out_file]

\* an attempt is about to be aborted while the directive of a voted baseline
\* is still waiting, after the attempt changed the line, the pending say and
\* the lines-behind counters
C14_Witness ==
    /\ C13_Abort
    /\ dc.blank_line_queue # <<>>
    /\ dc.linenumber # scopes[Top.scope].saved.linenumber
    /\ dc.say_inside_menu # scopes[Top.scope].saved.say_inside_menu
    /\ dc.most_lines_behind # scopes[Top.scope].saved.most_lines_behind

\* ---------------------------------------------------------------------- C15
\* the scopes opened by save_state and not yet committed or rolled back
C15_Open == {i \in 1..Len(scopes) : scopes[i].outcome = "open"}

\* the buffer save_state made the active sink for scope i
C15_Buffer(i) == Len(scopes[i].saved.files) + 1

\* C15 as stated: at most one speculative scope is open at any time.
C15_AsStated == Cardinality(C15_Open) <= 1

\* C15 (amended): scopes nest only through menus nested in item blocks.  Every
\* menu being printed has at most one scope open, a scope opened inside
\* another is closed before it, the buffer of a closed scope is never the
\* active sink again, and no scope is open when the dump ends.
C15_ScopesNest ==
    /\ status = "run" =>
           Cardinality(C15_Open)
               <= Cardinality({k \in 1..Len(stack) : stack[k].f = "menu"})
    /\ \A j \in C15_Open : scopes[j].enclosing \subseteq C15_Open
    /\ status \in {"run", "done"} =>
           \A i \in 1..Len(scopes) : i \notin C15_Open => dc.out_file # C15_Buffer(i)
    /\ status = "done" => C15_Open = {}

\* the scope of a nested menu is open inside the open scope of the menu around it
C15_Witness ==
    /\ status = "run"
    /\ \E i, j \in C15_Open : i \in scopes[j].enclosing

\* ---------------------------------------------------------------------- C16
\* print_menu is about to decide on the attempt of the scope Top.scope
C16_Deciding ==
    Running /\ Top.f = "menu" /\ Top.phase = "after" /\ Top.state # <<>>

\* C16: most_lines_behind is set to the last_lines_behind recorded before the
\* attempt when the scope is opened and is the running maximum of the
\* lines-behind values observed from then on; the attempt is aborted exactly
\* when it is strictly greater than that recorded value at the decision, and
\* otherwise committed with most_lines_behind the maximum of its pre-attempt
\* value and the value observed during the attempt.
C16_AbortRule ==
    [][IF Len(scopes') > Len(scopes)
       THEN /\ dc'.most_lines_behind = dc.last_lines_behind
            /\ dc'.last_lines_behind = dc.last_lines_behind
       ELSE IF C16_Deciding
       THEN LET pre == scopes[Top.scope].saved
            IN /\ scopes'[Top.scope].outcome = "rollback"
                      <=> dc.most_lines_behind > pre.last_lines_behind
               /\ scopes'[Top.scope].outcome = "commit"
                      <=> dc.most_lines_behind <= pre.last_lines_behind
               /\ scopes'[Top.scope].outcome = "commit" =>
                      dc'.most_lines_behind
                          = Max(pre.most_lines_behind, dc.most_lines_behind)
               /\ scopes'[Top.scope].outcome = "rollback" =>
                      /\ dc'.most_lines_behind = pre.most_lines_behind
                      /\ dc'.last_lines_behind = pre.last_lines_behind
       ELSE status' = "run" =>
               dc'.most_lines_behind
                   = Max(dc.most_lines_behind, dc'.last_lines_behind)]_vars

\* an attempt is about to be committed although the item fell behind, by no
\* more than the node before the menu had
C16_Witness ==
    /\ C16_Deciding
    /\ dc.most_lines_behind > 0
    /\ dc.most_lines_behind = scopes[Top.scope].saved.last_lines_behind

\* ---------------------------------------------------------------------- C17
\* the number of top-level Init nodes that vote for offset w
C17_Count(w) ==
    Cardinality({i \in 1..Len(ast) : ast[i].kind = "Init" /\ vote_offset(ast[i]) = w})

\* the offsets voted for
C17_Voted == {vote_offset(ast[i]) : i \in {j \in 1..Len(ast) : ast[j].kind = "Init"}}

\* the offsets installed: queued for the next blank line, or in force
C17_Installed ==
    {dc.blank_line_queue[i] : i \in 1..Len(dc.blank_line_queue)}
    \cup (IF dc.init_offset # 0 THEN {dc.init_offset} ELSE {})

\* C17: a baseline W is installed only when the option is on, W has the most
\* votes among the Init nodes and count(W) > count(0) + 1; it is installed
\* whenever some offset has that many votes; in every other case (not enough
\* votes, no Init node, option off) nothing is installed and init_offset is 0
\* during the whole dump.
C17_Installs ==
    status # "new" =>
        /\ \A w \in C17_Installed :
               /\ options.init_offset
               /\ C17_Count(w) > C17_Count(0) + 1
               /\ \A v \in C17_Voted : C17_Count(v) <= C17_Count(w)
        /\ Cardinality(C17_Installed) <= 1
        /\ IF options.init_offset /\ \E w \in C17_Voted : C17_Count(w) > C17_Count(0) + 1
           THEN C17_Installed # {}
           ELSE C17_Installed = {} /\ dc.init_offset = 0

\* a baseline is installed although some wrapper votes for offset 0
C17_Witness ==
    /\ status = "run"
    /\ C17_Installed # {}
    /\ C17_Count(0) > 0

\* ---------------------------------------------------------------------- C18
\* the number of `init offset` directives in the output of d
C18_Directives(d) ==
    Cardinality({p \in 1..Len(d.files[1]) : TKind(d.files[1][p]) = "init offset"})

\* the line the next step advances to: the line of the node about to be
\* printed, or of the condition of the if entry about to be printed (None
\* when the step advances to no line)
C18_Target ==
    IF AtNode THEN Cur.linenumber
    ELSE IF Running /\ Top.f = "if" /\ Top.k <= Len(Top.node.items)
    THEN Top.node.items[Top.k].condition
    ELSE None

\* C18: init_offset changes exactly in the steps that write the directive; such
\* a step finds the callback queued, the indent depth 0 and its target line
\* more than one line below the current line, and takes the callback off the
\* queue; the output never holds more than one directive.
C18_Deferred ==
    [][/\ C18_Directives(dc') <= 1
       /\ dc'.init_offset # dc.init_offset
              <=> C18_Directives(dc') > C18_Directives(dc)
       /\ dc'.init_offset # dc.init_offset =>
              /\ dc.blank_line_queue = <<dc'.init_offset>>
              /\ dc'.blank_line_queue = <<>>
              /\ dc.indent_level = 0
              /\ C18_Target - dc.linenumber > 1]_vars

\* a dump has ended whose output holds the directive, written after the first
\* wrapper was printed
C18_Witness ==
    /\ status = "done"
    /\ \E p \in 2..Len(Out) :
           /\ TKind(Out[p]) = "init offset"
           /\ \E q \in 1..(p - 1) : TKind(Out[q]) \notin {"indent", "blank"}

\* ---------------------------------------------------------------------- C19
\* d holds the `init` keyword written for the wrapper n
C19_InitWritten(d, n) ==
    \E f \in 1..Len(d.files) : \E p \in 1..Len(d.files[f]) :
        TKind(d.files[f][p]) = "init" /\ TId(d.files[f][p]) = n.id

\* the priority Ren'Py gives the implicit init block of a statement of this kind
C19_Default(kind) ==
    CASE kind \in {"Define", "Default", "Transform", "Style"} -> 0
      [] kind = "Screen" -> 0 - 500
      [] kind \in {"Testcase", "Image"} -> 500

\* one child of an eligible kind, at that kind's priority after the offset, and
\* the wrapper not on an earlier line than the child
C19_AtDefault(offset, n) ==
    /\ Len(n.block) = 1
    /\ n.block[1].kind \in {"Define", "Default", "Transform", "Style", "Screen",
                            "Testcase", "Image"}
    /\ n.priority = C19_Default(n.block[1].kind) + offset
    /\ n.linenumber >= n.block[1].linenumber

\* one define, default or transform child at any priority, the wrapper not on
\* an earlier line
C19_AnyPriority(n) ==
    /\ Len(n.block) = 1
    /\ n.block[1].kind \in {"Define", "Default", "Transform"}
    /\ n.linenumber >= n.block[1].linenumber

\* only translate strings statements, at the priority of the offset
C19_Strings(offset, n) ==
    /\ n.block # <<>>
    /\ n.priority = offset
    /\ \A i \in 1..Len(n.block) : n.block[i].kind = "TranslateString"

C20_Number(d, id, keywords) ==
    \E f \in 1..Len(d.files) : \E p \in 1..Len(d.files[f]) :
        /\ TKind(d.files[f][p]) \in keywords
        /\ TId(d.files[f][p]) = id
        /\ TArg(d.files[f][p]) # 0

\* C20: when init_offset is the offset a wrapper votes for, printing the wrapper
\* writes no priority number after `init`, and printing its define, default or
\* transform child writes none after the child's keyword.
C20_VoteAgrees ==
    [][/\ AtKind("Init") /\ dc'.init_offset = vote_offset(Cur)
              => ~C20_Number(dc', Cur.id, {"init"})
       /\ (/\ AtNode
           /\ Cur.kind \in {"Define", "Default", "Transform"}
           /\ Parent.kind = "Init"
           /\ dc'.init_offset = vote_offset(Parent))
              => ~C20_Number(dc', Cur.id, {"define", "default", "transform"})]_vars

\* under the voted offset 5 a wrapper at priority -495 was printed as its screen
\* child alone, after the directive, and no `init` keyword was written
C20_Witness ==
    /\ dc.init_offset = 5
    /\ \E p \in 1..Len(Out) : \E q \in (p + 1)..Len(Out) :
           TKind(Out[p]) = "init offset" /\ TKind(Out[q]) = "screen"
    /\ \A q \in 1..Len(Out) : TKind(Out[q]) # "init"

\* ---------------------------------------------------------------------- C21
\* the label about to be printed has no parameters and no body, and the next
\* node is a menu on its line, or a dialogue line of the menu after it, which is
\* on the label's line
C21_Foldable ==
    /\ ~Cur.parameters /\ Cur.block = <<>>
    /\ \/ /\ Index + 1 <= Len(Block)
          /\ Block[Index + 1].kind = "Menu"
          /\ Block[Index + 1].linenumber = Cur.linenumber
       \/ /\ Index + 2 <= Len(Block)
          /\ Block[Index + 1].kind = "Say"
          /\ Block[Index + 2].kind = "Menu"
          /\ Block[Index + 2].linenumber = Cur.linenumber
          /\ say_belongs_to_menu(Block[Index + 1], Block[Index + 2])

\* the step has kept the label for the menu and has written nothing
C21_Folded == dc'.label_inside_menu = Cur /\ dc'.files = dc.files

\* the step has written the `label` keyword of the label
C21_Standalone ==
    \E p \in 1..Len(dc'.files[dc'.out_file]) :
        /\ TKind(dc'.files[dc'.out_file][p]) = "label"
        /\ TId(dc'.files[dc'.out_file][p]) = Cur.id

\* the name of a label written by a menu is written by no other menu, and the
\* label is not written as a statement
C21_Once ==
    \A p \in 1..Len(Out) :
        TKind(Out[p]) = "menu" /\ TArg(Out[p]) # 0 =>
            \A q \in 1..Len(Out) :
                /\ TKind(Out[q]) = "menu" /\ TArg(Out[q]) = TArg(Out[p]) => q = p
                /\ TKind(Out[q]) = "label" => TId(Out[q]) # TArg(Out[p])

C22_BeforeMenu ==
    AtKind("Say") /\ Index + 1 <= Len(Block) /\ Block[Index + 1].kind = "Menu"

\* the dialogue line is non-interactive, has a speaker, no with clause and no
\* attributes
C22_Plain(say) == ~say.interact /\ say.who /\ ~say.with_ /\ ~say.attributes

\* the step has kept the dialogue line for the menu and has not written it
C22_Deferred ==
    /\ dc'.say_inside_menu = Cur
    /\ \A f \in 1..Len(dc'.files) : \A p \in 1..Len(dc'.files[f]) :
           TSerial(dc'.files[f][p]) > dc.nwrites => TId(dc'.files[f][p]) # Cur.id

C23_BlockDone == Running /\ Top.f = "nodes" /\ Top.index > Len(Top.block)

\* C23: when the loop over a block has printed its last node, nothing deferred
\* by a node of that block is pending: paired_with holds no transition if the
\* block has a With that pairs one, and say_inside_menu and label_inside_menu
\* hold no node of the block; when the trailer has been written all three are
\* False, None and None.
C23_Resolved ==
    /\ C23_BlockDone =>
          /\ (\E i \in 1..Len(Block) : Block[i].kind = "With" /\ Block[i].paired # None)
                 => dc.paired_with = PW_False
          /\ \A i \in 1..Len(Block) :
                 Block[i] # dc.say_inside_menu /\ Block[i] # dc.label_inside_menu
    /\ status = "done" =>
          /\ dc.paired_with = PW_False
          /\ IsNone(dc.say_inside_menu)
          /\ IsNone(dc.label_inside_menu)

\* the top-level block is done: it paired a transition, folded a label into the
\* menu and deferred a dialogue line, and all of them were written
C23_Witness ==
    /\ C23_BlockDone /\ Len(stack) = 1
    /\ \E i \in 1..Len(Block) : Block[i].kind = "With" /\ Block[i].paired # None
    /\ \E p \in 1..Len(Out) : \E q \in (p + 1)..Len(Out) :
           /\ TKind(Out[p]) = "menu" /\ TArg(Out[p]) # 0
           /\ TKind(Out[q]) = "say"

\* ---------------------------------------------------------------------- C24
\* the positions in the sink `file` of d that hold token `kind` of node `id`
C24_Places(d, file, kind, id) ==
    {p \in 1..Len(d.files[file]) :
        TKind(d.files[file][p]) = kind /\ TId(d.files[file][p]) = id}

\* the frames of the stack, innermost last, of the handlers named in fs
C24_Frames(fs) == {i \in 1..Len(stack) : stack[i].f \in fs}

\* the outermost frame among those of the set
C24_Outermost(is) == stack[CHOOSE i \in is : \A j \in is : i <= j]

\* C24: when print_label returns, missing_init and the sink are those from
\* before the label, and the sink holds `init ` for the label, once and right
\* before its `label`, exactly when the body printed a construct that needs an
\* init block while in_init was false (a nested label accounts for its own
\* body); an exception leaves missing_init, the sink and in_init as they were
\* before the outermost label and the outermost init or translate block;
\* print_init and print_translateblock restore in_init when they return.
C24_FlagScoped ==
    [][/\ (Running /\ Top.f = "label") =>
              LET inits == C24_Places(dc', Top.out_file, "init ", Top.node.id)
                  labels == C24_Places(dc', Top.out_file, "label", Top.node.id)
              IN /\ dc'.missing_init = Top.missing_init
                 /\ dc'.out_file = Top.out_file
                 /\ Cardinality(labels) = 1 /\ Cardinality(inits) <= 1
                 /\ inits # {} <=> C7_Flags(Top.node.block, dc.in_init)
                 /\ \A p \in inits : p + 1 \in labels
       /\ (Running /\ Top.f \in {"init", "translate"}) => dc'.in_init = Top.in_init
       /\ (status = "run" /\ status' = "error" /\ error'.kind # "AssertionError") =>
              /\ C24_Frames({"label"}) # {} =>
                     /\ dc'.missing_init = C24_Outermost(C24_Frames({"label"})).missing_init
                     /\ dc'.out_file = C24_Outermost(C24_Frames({"label"})).out_file
              /\ C24_Frames({"init", "translate"}) # {} =>
                     dc'.in_init = C24_Outermost(C24_Frames({"init", "translate"})).in_init
              /\ C24_Frames({"label", "init", "translate"}) # {} =>
                     ~dc'.in_init]_vars

\* the handler of a call at the end of a label's body has failed after a
\* declaration of the body was printed: the label is written with `init `, and
\* the flag and the sink are those of the top level
C24_Witness ==
    /\ status = "error" /\ error.kind = "IndexError"
    /\ \E i \in 1..Len(ast) :
           /\ ast[i].kind = "Label"
           /\ C24_Places(dc, 1, "init ", ast[i].id) # {}
    /\ ~dc.missing_init /\ dc.out_file = 1

\* ---------------------------------------------------------------------- C25
\* the render plan returned to the handler, first line first
C25_Plan == <<sl.first_line>> \o sl.other_lines

\* a unit without the tag and as attributes that the plan adds
C25_Strip(u) ==
    [u EXCEPT !.keywords = SelectSeq(@, LAMBDA k : k \notin {"tag", "as"})]

C25_Stripped == [k \in 1..Len(C25_Plan) |-> C25_Strip(C25_Plan[k])]

\* the units of the plan that hold contents of the node: not the units
\* synthesized for the first line, for tag and for as
C25_Units ==
    SelectSeq(C25_Stripped, LAMBDA u : ~(u.ty = "keywords" /\ u.keywords = <<>>))

\* the contents of the node in the order of the merge, the transform attachment
\* at its place
C25_InOrder ==
    IF sl.node.atl_transform # None
    THEN insert_atl(sl.contents_in_order, sl.node.atl_transform)
    ELSE sl.contents_in_order

C25_StartLine ==
    IF sl.immediate_block THEN sl.node.location + 1 ELSE sl.node.location

\* entry i of the contents opens a unit: it is the first, or a child, or it
\* follows a child, a keyword without line or the transform, or it is a
\* keyword or the transform on another line than the keyword before it
C25_Opens(m, i) ==
    \/ i = 1
    \/ m[i].ty = "child"
    \/ m[i - 1].ty # "keyword"
    \/ m[i].ty \in {"keyword", "atl"} /\ m[i].lineno # m[i - 1].lineno

\* the number of the unit that holds entry i
C25_UnitOf(m, i) == Cardinality({j \in 1..i : C25_Opens(m, j)})

C25_Type(ty) ==
    CASE ty = "child" -> "child"
      [] ty = "keyword" -> "keywords"
      [] ty = "broken" -> "keywords_broken"
      [] ty = "atl" -> "keywords_atl"

\* a plan was returned for a node
C25_Planned == sl.pc = "sorted"

\* C25 as stated, the keyword without line number: it is in the unit of the
\* keyword that follows it
C25_AsStated ==
    C25_Planned =>
        LET m == C25_InOrder
        IN \A i \in 1..(Len(m) - 1) :
               (m[i].ty = "broken" /\ m[i + 1].ty = "keyword") =>
                   \E k \in 1..Len(C25_Units) :
                       /\ C25_Units[k].content = m[i].content
                       /\ \E j \in 1..Len(C25_Units[k].keywords) :
                              C25_Units[k].keywords[j] = m[i + 1].content

\* C25: in the plan each child is a unit of its own; consecutive keywords of
\* one line are one unit, which the transform attachment closes when it is on
\* that line; a keyword without line number closes the unit of the keywords
\* right before it and is on their line, and when no keyword is right before it
\* it is a unit of its own on the line after the previous unit, or on the start
\* line of the block when it is the first unit.
C25_Units_Grouped ==
    C25_Planned =>
        LET m == C25_InOrder
            units == C25_Units
        IN /\ Len(units) = C25_UnitOf(m, Len(m))
           /\ \A k \in 1..Len(units) :
                  LET members == {i \in 1..Len(m) : C25_UnitOf(m, i) = k}
                      lo == CHOOSE i \in members : \A j \in members : i <= j
                      hi == CHOOSE i \in members : \A j \in members : j <= i
                      nkw == Cardinality({i \in members : m[i].ty = "keyword"})
                  IN /\ units[k].ty = C25_Type(m[hi].ty)
                     /\ units[k].keywords = [j \in 1..nkw |-> m[lo + j - 1].content]
                     /\ units[k].content
                            = IF m[hi].ty = "keyword" THEN "" ELSE m[hi].content
                     /\ units[k].lineno
                            = IF m[lo].lineno # None THEN m[lo].lineno
                              ELSE IF k = 1 THEN C25_StartLine
                              ELSE units[k - 1].lineno + 1
                     /\ m[lo].ty = "child" => lo = hi
                     /\ \A i \in members : m[i].ty \in {"keyword", "atl"} =>
                            m[i].lineno = units[k].lineno

\* a keyword without line closes the unit of the keyword before it, the next
\* one is a unit on the following line, and a keyword follows them
C25_Witness ==
    /\ C25_Planned
    /\ Len(C25_Units) = 3
    /\ C25_Units[1].ty = "keywords_broken" /\ C25_Units[1].keywords # <<>>
    /\ C25_Units[2].ty = "keywords_broken" /\ C25_Units[2].keywords = <<>>
    /\ C25_Units[2].lineno = C25_Units[1].lineno + 1
    /\ C25_Units[3].ty = "child"

\* ---------------------------------------------------------------------- C26
\* the units of the plan that hold the attribute `name`, once for each time
\* they hold it
C26_Holders(name) ==
    {<<k, j>> \in (1..Len(C25_Plan)) \X (1..(MaxKeywords + 2)) :
        j <= Len(C25_Plan[k].keywords) /\ C25_Plan[k].keywords[j] = name}

\* the unit of the plan is one that the plan made for tag or as alone
C26_Synthesized(u, name) == u.ty = "keywords" /\ u.keywords = <<name>> /\ u.content = ""

\* the first unit of the plan that holds keywords of the node
C26_FirstKeywordUnit ==
    LET ks == {k \in 1..Len(C25_Plan) :
                  /\ C25_Plan[k].ty # "child"
                  /\ ~(C25_Plan[k].ty = "keywords" /\ C25_Strip(C25_Plan[k]).keywords = <<>>)}
    IN IF ks = {} THEN 0 ELSE CHOOSE k \in ks : \A j \in ks : k <= j

\* a line is free before the contents: after the header for tag, from the
\* start line on for as
C26_FreeLine(name) ==
    \/ C25_Units = <<>>
    \/ C25_Units[1].lineno
           > (IF name = "tag" THEN sl.node.location + 1 ELSE C25_StartLine)

\* the attribute is in the plan exactly once when the node has it, and not at
\* all when it has not
C26_Once ==
    C25_Planned =>
        /\ Cardinality(C26_Holders("tag")) = (IF sl.node.tag THEN 1 ELSE 0)
        /\ Cardinality(C26_Holders("as")) = (IF sl.node.variable THEN 1 ELSE 0)

\* the attribute is in the first unit of keywords when no line is free before
\* the contents and there is such a unit, else in a unit made for it
C26_Placed ==
    C25_Planned =>
        \A name \in {"tag", "as"} : \A h \in C26_Holders(name) :
            IF ~C26_FreeLine(name) /\ C26_FirstKeywordUnit # 0
            THEN h[1] = C26_FirstKeywordUnit
            ELSE C26_Synthesized(C25_Plan[h[1]], name)

\* the tag of a screen is in the unit of the header line
C26_TagOnHeader ==
    /\ C25_Planned /\ sl.node.kind = "SLScreen" /\ sl.node.tag
    /\ \E h \in C26_Holders("tag") : h[1] = 1

\* C26: tag and as are each in the render plan exactly once, in the first unit
\* of keywords when no free line precedes the contents and else in a unit made
\* for them, and the tag of a screen is never in the unit of the header line.
C26_AsStated == C26_Once /\ C26_Placed /\ ~C26_TagOnHeader

\* a screen with a tag whose first keyword has no line number: the keyword is
\* given the line of the header, and the tag is put with it
C26_Witness ==
    /\ C26_TagOnHeader
    /\ sl.first_line.ty = "keywords_broken"
    /\ sl.first_line.lineno = sl.node.location

\* ---------------------------------------------------------------------- C27
\* print_displayable has made its choice between the has statement and a block
C27_Chosen == sl.node.kind = "SLDisplayable" /\ sl.pc \in {"sorted", "printed"}

\* the output holds a has statement
C27_HasWritten == \E p \in 1..Len(Out) : TKind(Out[p]) = "has "

\* the lines of the keywords that have one
C27_KeywordLines ==
    {sl.node.keyword[i].linenumber : i \in 1..Len(sl.node.keyword)} \ {None}

\* the keywords are in the order of their lines, as the compiler stores them
C27_SourceOrder ==
    \A i \in 1..Len(sl.node.keyword) : \A j \in i..Len(sl.node.keyword) :
        (sl.node.keyword[i].linenumber # None /\ sl.node.keyword[j].linenumber # None)
            => sl.node.keyword[i].linenumber <= sl.node.keyword[j].linenumber

C27_TargetWitness ==
    /\ C27_Chosen /\ sl.pc = "printed" /\ sl.has_block /\ ~C27_HasWritten
    /\ has_check(sl.node, FALSE, sl.children) = "yes"

C28_Outermost == {i \in C15_Open : scopes[i].enclosing \cap C15_Open = {}}

\* C28 (the state part): last_lines_behind <= most_lines_behind in every state
\* of a dump.
C28_LastBelowMost == dc.last_lines_behind <= dc.most_lines_behind

\* C28: last_lines_behind <= most_lines_behind in every state of a dump; a
\* step outside an open speculative scope never decreases most_lines_behind;
\* inside one only the reset that opens an attempt decreases it, to
\* last_lines_behind; and the commit or rollback that closes an attempt leaves
\* it at least what it was before that attempt, so that between two states
\* without open scope it never decreases.
C28_Behind ==
    /\ []C28_LastBelowMost
    /\ [][/\ (C15_Open = {} /\ C15_Open' = {}) =>
                 dc'.most_lines_behind >= dc.most_lines_behind
          /\ Len(scopes') > Len(scopes) =>
                 dc'.most_lines_behind = dc.last_lines_behind
          /\ (Len(scopes') = Len(scopes) /\ C15_Open' = C15_Open) =>
                 dc'.most_lines_behind >= dc.most_lines_behind
          /\ \A i \in C15_Open \ C15_Open' :
                 dc'.most_lines_behind >= scopes[i].saved.most_lines_behind
          /\ (C15_Open' = {}) =>
                 \A i \in C28_Outermost :
                     dc'.most_lines_behind >= scopes[i].saved.most_lines_behind]_vars

\* an attempt opened when most_lines_behind was above last_lines_behind has
\* been committed, and most_lines_behind is above what the attempt observed
C28_Witness ==
    /\ status = "run" /\ C15_Open = {}
    /\ \E i \in 1..Len(scopes) :
           /\ scopes[i].outcome = "commit"
           /\ scopes[i].saved.most_lines_behind > scopes[i].saved.last_lines_behind
           /\ dc.most_lines_behind = scopes[i].saved.most_lines_behind
           /\ dc.last_lines_behind < dc.most_lines_behind

\* ---------------------------------------------------------------------- C29
\* <<dialogue line, menu>>, as node ids, for every dialogue line of the block,
\* at any depth, that print_say defers into the menu after it
RECURSIVE C29_Pairs(_)
C29_Pairs(blk) ==
    {<<blk[i].id, blk[i + 1].id>> :
        i \in {k \in 1..(Len(blk) - 1) :
                  blk[k].kind = "Say" /\ say_is_deferred(blk[k], blk, k, FALSE)}}
    \cup UNION {C29_Pairs(blk[i].block) : i \in 1..Len(blk)}
    \cup UNION {UNION {C29_Pairs(blk[i].items[j].block) : j \in 1..Len(blk[i].items)} :
                   i \in 1..Len(blk)}

\* the indent level of the line of Out that holds position p
C29_Level(p) ==
    LET before == {q \in 1..p : TKind(Out[q]) = "indent"}
    IN IF before = {} THEN 0
       ELSE TArg(Out[CHOOSE q \in before : \A r \in before : r <= q])

\* the dialogue line is in the output, once, as a line of the menu
C29_InMenu(say, menu) ==
    /\ Cardinality(Places("say", say)) = 1
    /\ \A p \in Places("say", say) : \E q \in Places("menu", menu) :
           q < p /\ C29_Level(p) = C29_Level(q) + 1

\* C29: every dialogue line deferred by print_say is in the final output
\* exactly once, inside the menu that follows it in its block: not inside
\* another menu, and not missing because a second deferred dialogue line took
\* its place.
C29_AsStated ==
    status = "done" => \A sm \in C29_Pairs(ast) : C29_InMenu(sm[1], sm[2])

\* dump has ended and a deferred dialogue line is nowhere in the output, while
\* the dialogue line deferred inside an item of its menu is
C29_Witness ==
    /\ status = "done"
    /\ \E sm \in C29_Pairs(ast) : Places("say", sm[1]) = {}
    /\ \E sm \in C29_Pairs(ast) : Places("say", sm[1]) # {}

\* dump has ended and a deferred dialogue line is a line of a menu inside an
\* item of its own menu
C29_Misplaced ==
    /\ status = "done"
    /\ \E sm \in C29_Pairs(ast) : \E p \in Places("say", sm[1]) :
           \E q \in Places("menu", sm[2]) : C29_Level(p) > C29_Level(q) + 1

\* ---------------------------------------------------------------------- C30
\* the ids of the nodes of the block, at any depth
RECURSIVE C30_Ids(_)
C30_Ids(blk) ==
    {blk[i].id : i \in 1..Len(blk)}
    \cup UNION {C30_Ids(blk[i].block) : i \in 1..Len(blk)}
    \cup UNION {UNION {C30_Ids(blk[i].items[j].block) : j \in 1..Len(blk[i].items)} :
                   i \in 1..Len(blk)}

\* the with clauses in the output that show, scene and hide statements wrote
C30_Suffixes ==
    {p \in Positions(Out, "with") :
        \E q \in 1..Len(Out) :
            TId(Out[q]) = TId(Out[p]) /\ TKind(Out[q]) \in {"show", "scene", "hide"}}

\* the positions of the top level where a With node pairs a transition for a
\* statement that is not itself a With node
C30_Pairings ==
    {i \in 1..(Len(ast) - 1) :
        ast[i].kind = "With" /\ ast[i].paired # None /\ ast[i + 1].kind # "With"}

\* the text `with True` is in the output
C30_WithTrue == \E p \in Positions(Out, "with") : TArg(Out[p]) = PW_True

\* C30: every with clause that a show, scene or hide statement writes is a
\* pending transition expression, never `with True`; when dump has ended,
\* each paired transition was written exactly once by the statements from its
\* With node to the closing one.
C30_AsStated ==
    /\ \A p \in C30_Suffixes : TArg(Out[p]) > 0
    /\ ~C30_WithTrue
    /\ status = "done" =>
           \A i \in C30_Pairings :
               Cardinality({p \in Positions(Out, "with") :
                               /\ TId(Out[p]) \in C30_Ids(SubSeq(ast, i + 1, i + 2))
                               /\ TArg(Out[p]) = ast[i].paired}) = 1

\* the second statement of a label between the two With nodes of a paired
\* transition was written with the clause `with True`
C30_Witness ==
    /\ C30_WithTrue
    /\ \E i \in C30_Pairings : \E p \in C30_Suffixes :
           /\ TArg(Out[p]) = PW_True
           /\ TId(Out[p]) \in C30_Ids(<<ast[i + 1]>>)

====
